---- MODULE Spec2Model ----
(***************************************************************************)
(* Connect-Four engine of error404-connect4: the hard bot (bot_hard.c).    *)
(*                                                                         *)
(* A 64-bit word (unsigned long long) is modelled by the set of its set    *)
(* bit indices, a subset of 0..63: & is intersection, | is union, ^ is the *)
(* symmetric difference, >> k moves every index down by k and drops the    *)
(* indices below k, and + (1 << i) ripples a carry upward from bit i,      *)
(* dropping a carry out of bit 63.                                         *)
(***************************************************************************)
EXTENDS Integers, Sequences, FiniteSets, TLC

VARIABLES
    bb,        \* SpecBB: the bitboard handed to has_won_bb
    won,       \* SpecBB: what has_won_bb returned for bb
    pos,       \* the current Position (position, mask); the root Position of getBotMoveHard
    prev,      \* SpecPos: the Position before the last make_move
    lastcol,   \* SpecPos: the column of the last make_move, -1 before any
    plies,     \* SpecPos, SpecSearch: number of make_move calls so far
    w4,        \* the word the build placed after W[3] in eval_window
    sdepth,    \* SpecSearch: depth_rem of the last negamax call, -1 before any
    smax,      \* SpecSearch: max_depth of the last negamax call
    nm_val,    \* SpecSearch: the score negamax returned
    nm_later,  \* SpecSearch: the score negamax returned for the same node two plies later
    ref_val,   \* SpecSearch: the score of the full-width negamax
    board,     \* getBotMoveHard: the caller's board
    bot,       \* getBotMoveHard: the mark of the bot
    pc,        \* getBotMoveHard: where the call is
    result,    \* getBotMoveHard: the returned column, 0 before the return
    expired,   \* the clock has reached start_time + TIME_LIMIT_SEC
    tt,        \* ttable
    tt_generation,
    killer_moves,
    history_table,
    depth, depth_cap, moves, idx, alpha, beta,
    local_best_move, best_val_for_depth, best_move,
    last_completed_depth, last_score, timeout_flag, node_counter,
    completed, \* history: the best move recorded when each depth completed
    researches, \* history: the number of aspiration re-searches so far
    rboard,    \* rules.c: int board[ROWS][COLS]
    rprev,     \* rules.c: the board before the last place_checker
    rcol,      \* rules.c: the col argument of the last place_checker
    rplayer,   \* rules.c: the p argument of the last place_checker
    rret,      \* rules.c: what the last place_checker returned, -2 before any
    rcalls,    \* rules.c: the number of calls so far
    cw,        \* rules.c: check_win(rboard, p) for p = A, B
    lgrid,     \* load_board: the board argument, any 6x7 grid of characters
    lbot,      \* load_board: the bot argument
    llast,     \* load_board: the row-major index of the last cell rewritten, -1 if none
    lmarks,    \* load_board: the number of cells rewritten so far
    loaded,    \* load_board: the Position built from lgrid
    tdepth,    \* SpecTT: depth_rem of the node pos
    twin,      \* SpecTT: <<alpha, beta>> of the last negamax call on the node
    tslot,     \* SpecTT: the slot of the node before the last call
    tafter,    \* SpecTT: the slot of the node after the last call
    tval,      \* SpecTT: the value the last call returned
    tnodes,    \* SpecTT: the number of nodes the last call visited
    ttab,      \* SpecTT: the tables after the last call
    tcalls,    \* SpecTT: the number of calls on the node so far
    treal,     \* SpecTT: the slot of the node was as init_tt left it before the first call
    acalls,    \* SpecAging: the number of getBotMoveHard calls of the process so far
    aslot,     \* SpecAging: one slot of ttable
    awritten,  \* SpecAging: the number of the call that wrote aslot last, 0 if none
    frames,    \* SpecCancel: the negamax frames in flight, the innermost last
    cpc,       \* SpecCancel: "enter" (a call is about to run), "return" (a call has returned cval), "done"
    carg,      \* SpecCancel: the arguments of the call about to run
    cval,      \* SpecCancel: the value the last call returned
    cmax,      \* SpecCancel: max_depth
    cex,       \* SpecCancel: the value of node_counter from which the clock reads as expired
    cstart,    \* SpecCancel: node_counter when the root call was made
    taccess,   \* part_002: for every worker thread, the index of the slot of tt it touched last, -1 if none
    ppc,       \* part_002 getBotMoveHard: where the driver is
    pdepth,    \* part_002 getBotMoveHard: depth
    phave,     \* part_002 getBotMoveHard: haveLast
    plast,     \* part_002 getBotMoveHard: lastScore
    pbest,     \* part_002 getBotMoveHard: bestMove (0-based)
    pscore,    \* part_002 getBotMoveHard: bestScore
    palpha,    \* part_002 getBotMoveHard: alpha
    pbeta,     \* part_002 getBotMoveHard: beta
    pwindow,   \* part_002 getBotMoveHard: window
    plocal,    \* part_002 getBotMoveHard: <<localBestMove, localBestScore>>
    pcols,     \* part_002 root_search: the playable columns of the root in moveOrder order
    pn,        \* part_002 root_search: taskCount
    tup,       \* part_002: time_up() returns 1
    timeExpired,\* part_002: timeExpired
    tasks,     \* part_002 root_search: tasks[i].col, .score, .valid
    wpc,       \* part_002 thread_search: where worker i is
    wleft,     \* part_002 thread_search: the nodes worker i has still to visit
    gint,      \* the workers of the current root_search whose negamax was cut short
    gprev,     \* <<bestMove, bestScore>> when the current root_search began
    tsp,       \* SpecThreat: the Position handed to threat_space_search
    tsd,       \* SpecThreat: depth_rem of the call
    tsst,      \* SpecThreat: vcf_table, vcf_generation, the clock and *timeout_flag
    tsr,       \* SpecThreat: what the call returned
    tspc,      \* SpecThreat: "call" before the call, "done" after it
    tsn,       \* SpecThreat: the number of calls made on this table
    ub,        \* SpecUse: the board handed to getBotMoveHard (part_005)
    ubot,      \* SpecUse: the mark of the bot
    upos,      \* SpecUse: pos, the root Position
    upc,       \* SpecUse: the place of the call in getBotMoveHard and threat_space_root
    uret,      \* SpecUse: the column getBotMoveHard returned (0 before)
    uvia,      \* SpecUse: the return statement taken
    ust,       \* SpecUse: vcf_table, vcf_generation, the clock and timeout_flag of threat_space_root
    ucols,     \* SpecUse: moves of threat_space_root
    ui,        \* SpecUse: i of threat_space_root (from 1)
    ureplies,  \* SpecUse: opp_moves of threat_space_root
    uj,        \* SpecUse: j of threat_space_root (from 1)
    ulog,      \* SpecUse: the results of the threat_space_search calls made for moves[i]
    utss,      \* SpecUse: what threat_space_root returned (-1 before)
    uhow,      \* SpecUse: the return statement threat_space_root took
    evp,       \* SpecEval: the Position handed to evaluate_position_internal
    evw4,      \* SpecEval: the word read as W[4]
    evt,       \* SpecEval: include_threats of the last evaluation (-1 before)
    evs,       \* SpecEval: what the last evaluation returned
    evn,       \* SpecEval: the number of moves made on the board
    onode,     \* SpecOrder: the Position of the node whose moves are ordered
    odep,      \* SpecOrder: depth_rem of the node
    omax,      \* SpecOrder: max_depth of the search
    octx,      \* SpecOrder: the tables of the search when negamax enters the node
    oord,      \* SpecOrder: moves[] and scores[] after the sort (empty before)
    ocuts,     \* SpecOrder: the cut-offs taken since the tables were observed
    kp,        \* SpecKey: a Position made from the root by make_move and flip_player
    kq,        \* SpecKey: a second Position made from the same root
    kpf,       \* SpecKey: the first column played on the way to kp (-1: none)
    kqf,       \* SpecKey: the first column played on the way to kq (-1: none)
    gloop,     \* which main(): "main" (main.c) or "part6" (part_006)
    gbot,      \* bot_enabled
    gidx,      \* bot_index
    gdiff,     \* difficulty
    gver,      \* which getBotMoveMedium of bot_medium.c is linked (1 or 2)
    gboard,    \* char board[ROWS][COLS] of main()
    gcur,      \* current
    gover,     \* game_over
    gpc,       \* position in the loop body: "ask", "place" or "over"
    gcol,      \* col
    gfn,       \* the function that produced col
    gseen,     \* the board as it was passed to that function
    gin,       \* the columns still to be typed on stdin
    gres       \* what the loop printed: "win", "draw" or ""

bbvars == <<bb, won>>
posvars == <<pos, prev, lastcol, plies, w4>>
searchvars == <<sdepth, smax, nm_val, nm_later, ref_val>>
hardvars == <<board, bot, pc, result, expired, tt, tt_generation, killer_moves,
              history_table, depth, depth_cap, moves, idx, alpha, beta,
              local_best_move, best_val_for_depth, best_move,
              last_completed_depth, last_score, timeout_flag, node_counter, completed,
              researches>>

rulevars == <<rboard, rprev, rcol, rplayer, rret, rcalls, cw>>

\* The variables of the specifications of rules.c, load_board and the table.
loadvars == <<lgrid, lbot, llast, lmarks, loaded>>

ttvars == <<tdepth, twin, tslot, tafter, tval, tnodes, ttab, tcalls, treal>>

agevars == <<acalls, aslot, awritten>>

cancelvars == <<frames, cpc, carg, cval, cmax, cex, cstart>>

partvars == <<taccess>>

parvars == <<ppc, pdepth, phave, plast, pbest, pscore, palpha, pbeta, pwindow, plocal,
             pcols, pn, tup, timeExpired, tasks, wpc, wleft, gint, gprev>>

threatvars == <<tsp, tsd, tsst, tsr, tspc, tsn>>

usevars == <<ub, ubot, upos, upc, uret, uvia, ust, ucols, ui, ureplies, uj, ulog, utss, uhow>>

evalvars == <<evp, evw4, evt, evs, evn>>

ordervars == <<onode, odep, omax, octx, oord, ocuts>>

keyvars == <<kp, kq, kpf, kqf>>

gamevars == <<gloop, gbot, gidx, gdiff, gver, gboard, gcur, gover, gpc, gcol, gfn, gseen, gin, gres>>

extvars == <<rulevars, loadvars, ttvars, agevars, cancelvars, partvars, parvars, threatvars, usevars, evalvars, ordervars, keyvars, gamevars>>

vars == <<bbvars, posvars, searchvars, hardvars, extvars>>

ROWS == 6
COLS == 7
WIN_SCORE == 1000000
MAX_PLY == 64

\* The stride of one column in the bitboard: 6 cells and one sentinel bit.
H == 7

Cells == {c * H + r : c \in 0..(COLS - 1), r \in 0..(ROWS - 1)}

(* ---- 64-bit word operations ---- *)

Shr(w, k) == {b - k : b \in {x \in w : x >= k}}

Xor(a, b) == (a \ b) \cup (b \ a)

RECURSIVE AddBit(_, _)
AddBit(w, i) ==
    IF i > 63 THEN w
    ELSE IF i \in w THEN AddBit(w \ {i}, i + 1)
    ELSE w \cup {i}

bottom_mask(col) == col * 7

\* The top mask put on the sentinel bit of the column.
top_mask_sentinel(col) == col * 7 + 6

top_mask(col) == col * 7 + 5

(* ---- win detection on a single bitboard ---- *)

has_won_bb_no_vertical(w) ==
    LET h == w \cap Shr(w, 7)
        d1 == w \cap Shr(w, 6)
        d2 == w \cap Shr(w, 8)
    IN  IF (h \cap Shr(h, 14)) # {} THEN 1
        ELSE IF (d1 \cap Shr(d1, 12)) # {} THEN 1
        ELSE IF (d2 \cap Shr(d2, 16)) # {} THEN 1
        ELSE 0

has_won_bb(w) ==
    LET v == w \cap Shr(w, 1)
        h == w \cap Shr(w, 7)
        d1 == w \cap Shr(w, 6)
        d2 == w \cap Shr(w, 8)
    IN  IF (v \cap Shr(v, 2)) # {} THEN 1
        ELSE IF (h \cap Shr(h, 14)) # {} THEN 1
        ELSE IF (d1 \cap Shr(d1, 12)) # {} THEN 1
        ELSE IF (d2 \cap Shr(d2, 16)) # {} THEN 1
        ELSE 0

(* ---- Position ---- *)

opponent_bb(p) == Xor(p.mask, p.position)

can_play(p, col) == top_mask(col) \notin p.mask

\* The move without the exchange of the two sides.
make_move_no_flip(p, col) ==
    [position |-> p.position,
     mask     |-> p.mask \cup AddBit(p.mask, bottom_mask(col))]

make_move(p, col) ==
    [position |-> Xor(p.position, p.mask),
     mask     |-> p.mask \cup AddBit(p.mask, bottom_mask(col))]

\* position ^= mask without a move: the opponent's point of view
\* (opp_view in negamax, evaluate_position_internal and getBotMoveHard).
flip_view(p) == [position |-> Xor(p.position, p.mask), mask |-> p.mask]

board_full_pos(p) == \A c \in 0..(COLS - 1) : ~can_play(p, c)

(***************************************************************************)
(* ---- transposition table ----                                           *)
(* tt_key is a Zobrist hash of the stones as (to-move, opponent); the model *)
(* takes the hashed content itself as the key, so distinct positions have   *)
(* distinct keys and distinct slots.  The key of the empty board is 0, the  *)
(* key init_tt writes into every slot.                                      *)

tt_key(p) == <<p.position, p.mask>>

InitEntry ==
    [key |-> <<{}, {}>>, depth |-> -1, value |-> 0, flag |-> 0, move |-> -1, gen |-> 0]

TTGet(table, key) == IF key \in DOMAIN table THEN table[key] ELSE InitEntry

TTPut(table, key, e) == [k \in DOMAIN table \cup {key} |-> IF k = key THEN e ELSE table[k]]

(* ---- move generation ---- *)

ORDER == <<3, 2, 4, 1, 5, 0, 6>>

gen_moves(p) == SelectSeq(ORDER, LAMBDA c : can_play(p, c))

(* ---- heuristic evaluation (window-based) ---- *)

\* C integer division truncates toward zero.
CDiv(a, b) == IF a >= 0 THEN a \div b ELSE -((-a) \div b)

cell_at(p, r, c) ==
    LET bit == c * 7 + r
    IN  IF bit \in p.position THEN 1
        ELSE IF (bit \in p.mask) # (bit \in p.position) THEN -1
        ELSE 0

\* W[n] of eval_window.  W has four elements; W[4] is read when one side owns
\* all four cells of a window, and is whatever word the build placed after
\* the array (w4).
WeightAt(n, w4v) == IF n = 4 THEN w4v ELSE <<0, 2, 12, 60>>[n + 1]

eval_window(p, r, c, dr, dc, w4v) ==
    LET v == [i \in 0..3 |-> cell_at(p, r + i * dr, c + i * dc)]
        pcount == Cardinality({i \in 0..3 : v[i] = 1})
        ocount == Cardinality({i \in 0..3 : v[i] = -1})
    IN  IF pcount > 0 /\ ocount > 0 THEN 0
        ELSE IF pcount > 0 THEN WeightAt(pcount, w4v)
        ELSE IF ocount > 0 THEN -WeightAt(ocount, w4v)
        ELSE 0

\* The starts <<r, c, dr, dc>> of the four window loops, in loop order.
Windows ==
    [i \in 1..24 |-> <<(i - 1) \div 4, (i - 1) % 4, 0, 1>>]
    \o [i \in 1..21 |-> <<(i - 1) \div 7, (i - 1) % 7, 1, 0>>]
    \o [i \in 1..12 |-> <<(i - 1) \div 4, (i - 1) % 4, 1, 1>>]
    \o [i \in 1..12 |-> <<(i - 1) \div 4, 3 + ((i - 1) % 4), 1, -1>>]

RECURSIVE SumWindows(_, _, _)
SumWindows(p, i, w4v) ==
    IF i > Len(Windows) THEN 0
    ELSE eval_window(p, Windows[i][1], Windows[i][2], Windows[i][3], Windows[i][4], w4v)
         + SumWindows(p, i + 1, w4v)

RECURSIVE SumCenter(_, _)
SumCenter(p, r) == IF r > 5 THEN 0 ELSE cell_at(p, r, 3) * 4 + SumCenter(p, r + 1)

(* ---- quick immediate win detection for current player ---- *)

WinningCols(p) ==
    {c \in 0..(COLS - 1) : can_play(p, c) /\ has_won_bb(opponent_bb(make_move(p, c))) = 1}

count_immediate_wins(p) == Cardinality(WinningCols(p))

evaluate_position_internal(p, include_threats, w4v) ==
    LET base == SumCenter(p, 0) + SumWindows(p, 1, w4v)
        threats_me == count_immediate_wins(p)
        threats_opp == count_immediate_wins(flip_view(p))
    IN  IF include_threats = 1
        THEN base + (threats_me - threats_opp) * 200
                  + (IF threats_me >= 2 THEN 5000 ELSE 0)
                  - (IF threats_opp >= 2 THEN 5000 ELSE 0)
        ELSE base

(***************************************************************************)
(* ---- timing ----                                                        *)
(* The search context st carries the tables and counters negamax reads and  *)
(* writes: tt, km (killer_moves), hist (history_table), gen (tt_generation),*)
(* nc (node_counter), to (timeout_flag), w4 (the word after W), and ex, the *)
(* value of node_counter from which clock() - start_time has reached        *)
(* TIME_LIMIT_SEC (NoExpiry: not during this call).                         *)

NoExpiry == 1000000000

timed_out(nc, ex) == nc >= ex

(* ---- negamax with alpha-beta + TT + time limit ---- *)

Swap(q, i, j) == [q EXCEPT ![i] = q[j], ![j] = q[i]]

\* Lines 425-434: put the stored best move first.
TTMoveFirst(mv, e, key, gen) ==
    IF e.gen = gen /\ e.key = key /\ e.depth > 0 /\ e.move >= 0 /\ e.move < COLS
       /\ \E i \in 1..Len(mv) : mv[i] = e.move
    THEN Swap(mv, 1, CHOOSE i \in 1..Len(mv) : mv[i] = e.move)
    ELSE mv

\* Lines 452-488: the ordering score of column c.
move_score(p, c, e, key, ply, opp_cols, st) ==
    LET child == make_move(p, c)
    IN  (6 - (IF c > 3 THEN c - 3 ELSE 3 - c))
        + (IF has_won_bb(opponent_bb(child)) = 1 THEN 12000 ELSE 0)
        + (IF c \in opp_cols THEN 8000 ELSE 0)
        + (IF WinningCols(flip_view(child)) = {} THEN 200 ELSE 0)
        + CDiv(evaluate_position_internal(child, 0, st.w4), 32)
        + CDiv(st.hist[c], 8)
        + (IF st.km[0][ply] = c THEN 2000 ELSE IF st.km[1][ply] = c THEN 1000 ELSE 0)
        + (IF e.key = key /\ e.move = c THEN 1000 ELSE 0)

\* Lines 490-499: selection sort, descending; i is the 1-based outer index.
RECURSIVE SelSort(_, _, _)
SelSort(mv, sc, i) ==
    IF i >= Len(mv) THEN [moves |-> mv, scores |-> sc]
    ELSE LET best == CHOOSE j \in i..Len(sc) :
                        /\ \A k \in i..Len(sc) : sc[k] <= sc[j]
                        /\ \A k \in i..(j - 1) : sc[k] < sc[j]
         IN  SelSort(Swap(mv, i, best), Swap(sc, i, best), i + 1)

\* Lines 531-538: killers and history on a cut-off.
Cutoff(st, col, depth_rem, ply) ==
    LET sq == depth_rem * depth_rem
        bonus == IF sq > 256 THEN 256 ELSE sq
        k0 == st.km[0][ply]
    IN  [st EXCEPT !.hist[col] = @ + bonus,
                   !.km = IF k0 # col
                          THEN [@ EXCEPT ![1][ply] = k0, ![0][ply] = col]
                          ELSE @]

\* Lines 509-512: late-move pruning; i is the 0-based index of the move.
LatePruned(depth_rem, i, score_i, alph) ==
    depth_rem <= 2 /\ i >= 3 /\ score_i + 200 < alph

\* The leaf with one fixed score, 0, for a full board.
LeafValue_draw_zero(p, depth_rem, max_depth, w4v) ==
    IF count_immediate_wins(p) > 0 THEN WIN_SCORE - (max_depth - depth_rem)
    ELSE IF count_immediate_wins(flip_view(p)) > 0 THEN -WIN_SCORE + (max_depth - depth_rem)
    ELSE IF board_full_pos(p) THEN 0
    ELSE evaluate_position_internal(p, 0, w4v)

\* Lines 381-393: the value of a leaf.
LeafValue(p, depth_rem, max_depth, w4v) ==
    IF count_immediate_wins(p) > 0 THEN WIN_SCORE - (max_depth - depth_rem)
    ELSE IF count_immediate_wins(flip_view(p)) > 0 THEN -WIN_SCORE + (max_depth - depth_rem)
    ELSE evaluate_position_internal(p, 0, w4v)

\* A loss scored without the ply it is found at.
LostValue_flat(depth_rem, max_depth) == -WIN_SCORE

\* Lines 375-378: the value of a node whose last mover has four in a row.
LostValue(depth_rem, max_depth) == -WIN_SCORE + (max_depth - depth_rem)

\* The probe without the test of the generation stamp.
TTProbe_any_generation(e, key, gen, depth_rem, alph, bet) ==
    LET hit == e.key = key /\ e.depth >= depth_rem
        alpha0 == IF hit /\ e.flag = 1 /\ e.value > alph THEN e.value ELSE alph
        beta0 == IF hit /\ e.flag = 2 /\ e.value < bet THEN e.value ELSE bet
    IN  [ret |-> hit /\ (e.flag = 0 \/ alpha0 >= beta0),
         val |-> e.value, alph |-> alpha0, bet |-> beta0]

\* Lines 399-415: the probe of the slot e.  ret: negamax returns val at once;
\* otherwise the node is searched with the window (alph, bet), which is also
\* the window recorded as alpha0, beta0.
TTProbe(e, key, gen, depth_rem, alph, bet) ==
    LET hit == e.gen = gen /\ e.key = key /\ e.depth >= depth_rem
        alpha0 == IF hit /\ e.flag = 1 /\ e.value > alph THEN e.value ELSE alph
        beta0 == IF hit /\ e.flag = 2 /\ e.value < bet THEN e.value ELSE bet
    IN  [ret |-> hit /\ (e.flag = 0 \/ alpha0 >= beta0),
         val |-> e.value, alph |-> alpha0, bet |-> beta0]

\* The store with the flags of the two bounds exchanged.
TTStore_bounds_swapped(e, key, gen, depth_rem, best_val, best_move_local, alpha0, beta0) ==
    LET kept == e.gen = gen /\ e.key = key /\ e.depth > depth_rem
        w == IF kept THEN e
             ELSE [key |-> key, depth |-> depth_rem, value |-> best_val,
                   flag |-> e.flag, move |-> best_move_local, gen |-> gen]
    IN  [w EXCEPT !.flag = IF best_val <= alpha0 THEN 1
                           ELSE IF best_val >= beta0 THEN 2 ELSE 0]

\* Lines 543-553: the slot after the store.
TTStore(e, key, gen, depth_rem, best_val, best_move_local, alpha0, beta0) ==
    LET kept == e.gen = gen /\ e.key = key /\ e.depth > depth_rem
        w == IF kept THEN e
             ELSE [key |-> key, depth |-> depth_rem, value |-> best_val,
                   flag |-> e.flag, move |-> best_move_local, gen |-> gen]
    IN  [w EXCEPT !.flag = IF best_val <= alpha0 THEN 2
                           ELSE IF best_val >= beta0 THEN 1 ELSE 0]

RECURSIVE negamax(_, _, _, _, _, _), MoveLoop(_, _, _, _, _, _, _, _, _, _, _, _)

\* Lines 504-541: the move loop from the move of 1-based index i on.
MoveLoop(p, depth_rem, max_depth, alph, bet, mv, sc, i, best_val, best_move_local, ply, st) ==
    IF i > Len(mv)
    THEN [timeout |-> FALSE, best_val |-> best_val, move |-> best_move_local, st |-> st]
    ELSE IF LatePruned(depth_rem, i - 1, sc[i], alph)
    THEN MoveLoop(p, depth_rem, max_depth, alph, bet, mv, sc, i + 1,
                  best_val, best_move_local, ply, st)
    ELSE LET col == mv[i]
             r == negamax(make_move(p, col), depth_rem - 1, max_depth, -bet, -alph, st)
             score == -r.val
             bv == IF score > best_val THEN score ELSE best_val
             bm == IF score > best_val THEN col ELSE best_move_local
             a2 == IF score > alph THEN score ELSE alph
         IN  IF r.st.to = 1
             THEN [timeout |-> TRUE, best_val |-> best_val, move |-> best_move_local,
                   st |-> r.st]
             ELSE IF a2 >= bet
             THEN [timeout |-> FALSE, best_val |-> bv, move |-> bm,
                   st |-> Cutoff(r.st, col, depth_rem, ply)]
             ELSE MoveLoop(p, depth_rem, max_depth, a2, bet, mv, sc, i + 1,
                           bv, bm, ply, r.st)

negamax(p, depth_rem, max_depth, alph, bet, st) ==
    IF st.to = 1 THEN [val |-> 0, st |-> st]
    ELSE LET nc1 == st.nc + 1
             st1 == [st EXCEPT !.nc = nc1]
    IN  IF nc1 % 128 = 0 /\ timed_out(nc1, st.ex)
        THEN [val |-> 0, st |-> [st1 EXCEPT !.to = 1]]
        ELSE IF has_won_bb(opponent_bb(p)) = 1
        THEN [val |-> LostValue(depth_rem, max_depth), st |-> st1]
        ELSE IF depth_rem = 0 \/ board_full_pos(p)
        THEN [val |-> LeafValue(p, depth_rem, max_depth, st.w4), st |-> st1]
        ELSE LET key == tt_key(p)
                 e == TTGet(st1.tt, key)
                 pr == TTProbe(e, key, st.gen, depth_rem, alph, bet)
                 alpha0 == pr.alph
                 beta0 == pr.bet
             IN  IF pr.ret THEN [val |-> pr.val, st |-> st1]
                 ELSE LET mv0 == gen_moves(p)
                          plyr == max_depth - depth_rem
                          ply == IF plyr >= MAX_PLY THEN MAX_PLY - 1 ELSE plyr
                          mv1 == TTMoveFirst(mv0, e, key, st.gen)
                          opp_cols == WinningCols(flip_view(p))
                          sc1 == [i \in 1..Len(mv1) |->
                                    move_score(p, mv1[i], e, key, ply, opp_cols, st1)]
                          srt == SelSort(mv1, sc1, 1)
                          lp == MoveLoop(p, depth_rem, max_depth, alpha0, beta0,
                                         srt.moves, srt.scores, 1,
                                         -WIN_SCORE, srt.moves[1], ply, st1)
                          e2 == TTGet(lp.st.tt, key)
                      IN  IF Len(mv0) = 0 THEN [val |-> 0, st |-> st1]
                          ELSE IF lp.timeout THEN [val |-> 0, st |-> lp.st]
                          ELSE [val |-> lp.best_val,
                                st |-> [lp.st EXCEPT !.tt =
                                    TTPut(@, key, TTStore(e2, key, st.gen, depth_rem,
                                          lp.best_val, lp.move, alpha0, beta0))]]

\* A full-width negamax without pruning and without table, with the terminal
\* and leaf scoring of negamax.
RECURSIVE plain_negamax(_, _, _, _)
RECURSIVE PlainBest(_, _, _, _, _, _)
PlainBest(p, depth_rem, max_depth, w4v, c, best) ==
    IF c >= COLS THEN best
    ELSE IF ~can_play(p, c) THEN PlainBest(p, depth_rem, max_depth, w4v, c + 1, best)
    ELSE LET s == -plain_negamax(make_move(p, c), depth_rem - 1, max_depth, w4v)
         IN  PlainBest(p, depth_rem, max_depth, w4v, c + 1, IF s > best THEN s ELSE best)

plain_negamax(p, depth_rem, max_depth, w4v) ==
    IF has_won_bb(opponent_bb(p)) = 1 THEN LostValue(depth_rem, max_depth)
    ELSE IF depth_rem = 0 \/ board_full_pos(p) THEN LeafValue(p, depth_rem, max_depth, w4v)
    ELSE PlainBest(p, depth_rem, max_depth, w4v, 0, -WIN_SCORE)

\* The tables at the start of a move decision (lines 566-571).
InitKillers == [k \in 0..1 |-> [i \in 0..(MAX_PLY - 1) |-> -1]]

InitHistory == [c \in 0..(COLS - 1) |-> 0]

EmptyTT == [k \in {} |-> InitEntry]

(***************************************************************************)
(* ---- the external board ----                                            *)
(* char board[ROWS][COLS], row 0 on top: a tuple of ROWS rows, each a tuple *)
(* of COLS marks; "." is an empty cell.                                     *)

At(b, r, c) == b[r + 1][c + 1]

\* Lines 572-588: the root Position, position = the stones of bot.
build_position(b, who) ==
    LET stones == {<<r, c>> \in (0..(ROWS - 1)) \X (0..(COLS - 1)) : At(b, r, c) # "."}
    IN  [position |-> {rc[2] * 7 + (ROWS - 1 - rc[1]) : rc \in {x \in stones : At(b, x[1], x[2]) = who}},
         mask     |-> {rc[2] * 7 + (ROWS - 1 - rc[1]) : rc \in stones}]

(* ---- small opening book (board-based) ---- *)

\* The number of cells of b that hold one of the given characters.
CountCells(b, chars) ==
    Cardinality({rc \in (0..(ROWS - 1)) \X (0..(COLS - 1)) : At(b, rc[1], rc[2]) \in chars})

\* Lines 313-321: the first column, from the left, that holds a stone.
FirstStoneColumn(b) ==
    LET cs == {c \in 0..(COLS - 1) : \E r \in 0..(ROWS - 1) : At(b, r, c) # "."}
    IN  IF cs = {} THEN -1 ELSE CHOOSE c \in cs : \A x \in cs : c <= x

\* The book with the empty-board entry given as a 0-based column.
opening_book_move_zero_based(b, who) ==
    LET stones == CountCells(b, {"X", "O"})
        my_stones == CountCells(b, {who})
        opp_stones == stones - my_stones
        opp_col == FirstStoneColumn(b)
        near == IF At(b, ROWS - 1, 2) = "." THEN 3
                ELSE IF At(b, ROWS - 1, 4) = "." THEN 5 ELSE 0
    IN  IF stones > 4 THEN 0
        ELSE IF stones = 0 THEN (IF At(b, ROWS - 1, 3) = "." THEN 3 ELSE 0)
        ELSE IF stones = 1 /\ my_stones = 0 /\ opp_stones = 1
        THEN IF opp_col = -1 THEN 0
             ELSE IF opp_col # 3 /\ At(b, ROWS - 1, 3) = "." THEN 4
             ELSE IF opp_col = 3 THEN near
             ELSE 0
        ELSE IF stones = 2 /\ my_stones = 1 /\ opp_stones = 1
        THEN IF At(b, ROWS - 1, 3) = who THEN near ELSE 0
        ELSE 0

opening_book_move(b, who) ==
    LET stones == CountCells(b, {"X", "O"})
        my_stones == CountCells(b, {who})
        opp_stones == stones - my_stones
        opp_col == FirstStoneColumn(b)
        near == IF At(b, ROWS - 1, 2) = "." THEN 3
                ELSE IF At(b, ROWS - 1, 4) = "." THEN 5 ELSE 0
    IN  IF stones > 4 THEN 0
        ELSE IF stones = 0 THEN (IF At(b, ROWS - 1, 3) = "." THEN 4 ELSE 0)
        ELSE IF stones = 1 /\ my_stones = 0 /\ opp_stones = 1
        THEN IF opp_col = -1 THEN 0
             ELSE IF opp_col # 3 /\ At(b, ROWS - 1, 3) = "." THEN 4
             ELSE IF opp_col = 3 THEN near
             ELSE 0
        ELSE IF stones = 2 /\ my_stones = 1 /\ opp_stones = 1
        THEN IF At(b, ROWS - 1, 3) = who THEN near ELSE 0
        ELSE 0

(* ---- public entry: the pieces of getBotMoveHard ---- *)

\* Lines 591-592: tt_generation is an unsigned char and skips 0.
NextGeneration(g) == IF (g + 1) % 256 = 0 THEN 1 ELSE (g + 1) % 256

\* The book move taken without the test of its top cell.
BookMove_unchecked(b, who) == opening_book_move(b, who)

\* Lines 595-598: the book move, if it is a column whose top cell is empty.
BookMove(b, who) ==
    LET ob_move == opening_book_move(b, who)
    IN  IF ob_move >= 1 /\ ob_move <= COLS /\ At(b, 0, ob_move - 1) = "." THEN ob_move ELSE 0

MinOf(S) == CHOOSE c \in S : \A x \in S : c <= x

\* The root without the loop that looks for a winning column.
ImmediateWin_none(p) == 0

\* Lines 601-608: the first column that wins at once, 1-based, or 0.
ImmediateWin(p) ==
    LET cs == WinningCols(p) IN IF cs = {} THEN 0 ELSE MinOf(cs) + 1

\* The block loop without the flip of the side to move (line 618).
ImmediateBlock_own_view(p) ==
    LET cs == WinningCols(p) IN IF cs = {} THEN 0 ELSE MinOf(cs) + 1

\* Lines 611-623: the first column in which the opponent would win, 1-based, or 0.
ImmediateBlock(p) ==
    LET cs == WinningCols(flip_view(p)) IN IF cs = {} THEN 0 ELSE MinOf(cs) + 1

\* Lines 636-646: column 4, or the first legal column if the center is full.
DefaultMove(p) ==
    LET cs == {c \in 0..(COLS - 1) : can_play(p, c)}
    IN  IF ~can_play(p, 3) /\ cs # {} THEN MinOf(cs) + 1 ELSE 4

\* Lines 728-733: the safety net before the return.
SafeMove(b, p, bm) ==
    LET cs == {c \in 0..(COLS - 1) : can_play(p, c)}
    IN  IF (bm < 1 \/ bm > COLS \/ At(b, 0, bm - 1) # ".") /\ cs # {}
        THEN MinOf(cs) + 1
        ELSE bm

\* Lines 674-682: the window a root move is first searched with.
FirstWindow(d, ls) ==
    IF d >= 3 THEN [alph |-> ls - 64, bet |-> ls + 64]
    ELSE [alph |-> -WIN_SCORE, bet |-> WIN_SCORE]

\* Lines 686-687: the clamp at the top of the re-search loop.
ClampLow(a) == IF a < -WIN_SCORE THEN -WIN_SCORE ELSE a

ClampHigh(b) == IF b > WIN_SCORE THEN WIN_SCORE ELSE b

\* Lines 701-707: "low" or "high" when the window is widened and the move is
\* searched again, "none" when the score stands.
Widen(score, a, b, d) ==
    IF score <= a /\ a > -WIN_SCORE /\ d >= 3 THEN "low"
    ELSE IF score >= b /\ b < WIN_SCORE /\ d >= 3 THEN "high"
    ELSE "none"

\* A fail-low that leaves alpha where it was.
WidenLow_none(a) == a

\* Lines 702 and 705: the widened bound.
WidenLow(a) == a - 256

WidenHigh(b) == b + 256

(***************************************************************************)
(* ---- boards ----                                                        *)

\* A board from its seven column stacks, each listed from the bottom up.
StackBoard(stacks) ==
    [r \in 1..ROWS |-> [c \in 1..COLS |->
        IF ROWS - r < Len(stacks[c]) THEN stacks[c][ROWS - r + 1] ELSE "."]]

\* A full board on which nobody has four in a row (the end of a drawn game).
BaseStacks ==
    << <<"O", "X", "X", "O", "O", "O">>,
       <<"X", "X", "O", "X", "O", "O">>,
       <<"X", "X", "O", "O", "X", "X">>,
       <<"X", "O", "X", "O", "O", "O">>,
       <<"O", "X", "X", "O", "X", "X">>,
       <<"O", "X", "X", "X", "O", "X">>,
       <<"O", "X", "O", "O", "O", "X">> >>

\* The boards left when the top stone is taken back from BaseStacks in some of
\* the columns cols (numbered from 1).
CutBoardsOn(cols) ==
    {StackBoard([c \in 1..COLS |->
        IF c \in S THEN SubSeq(BaseStacks[c], 1, ROWS - 1) ELSE BaseStacks[c]]) :
        S \in SUBSET cols}

CutBoards == CutBoardsOn(1..COLS)

\* BaseStacks without the two top stones of columns 4 and 7: four empty cells.
DeepBoard ==
    StackBoard([c \in 1..COLS |->
        SubSeq(BaseStacks[c], 1, ROWS - (IF c \in {4, 7} THEN 2 ELSE 0))])

\* A position of a game in progress with four playable columns, to move: "X".
LmpBoard ==
    << <<".", ".", ".", "O", "X", "O", ".">>,
       <<"O", "X", ".", "X", "O", "O", "O">>,
       <<"O", "X", ".", "X", "X", "X", "O">>,
       <<"X", "O", ".", "O", "X", "O", "X">>,
       <<"X", "O", "X", "O", "O", "X", "X">>,
       <<"O", "X", "O", "X", "O", "X", "O">> >>

EmptyBoard == StackBoard(<< <<>>, <<>>, <<>>, <<>>, <<>>, <<>>, <<>> >>)

\* Both sides have a column that completes four: "X" in column 4 (the bottom
\* row), "O" in column 7 (a stack of three).
RaceBoard ==
    StackBoard(<< <<"X">>, <<"X">>, <<"X">>, <<>>, <<>>, <<>>, <<"O", "O", "O">> >>)

\* Only "X" has a column that completes four: column 1 (a stack of three).
ThreatBoard ==
    StackBoard(<< <<"X", "X", "X">>, <<>>, <<"O">>, <<>>, <<"O">>, <<>>, <<"O">> >>)

\* A board that is not well stacked: "X" on the bottom of the center column
\* and "O" alone in the top cell of column 3.
FloatBoard ==
    [r \in 1..ROWS |-> [c \in 1..COLS |->
        IF r = ROWS /\ c = 4 THEN "X" ELSE IF r = 1 /\ c = 3 THEN "O" ELSE "."]]

\* A position near the end of a game, to move: "X", with columns 3, 6 and 7
\* open.  "X" in column 3 lets "O" answer in column 3 and threaten columns 6
\* and 7 at once.
TrapBoard ==
    << <<"O", "X", ".", "O", "O", ".", ".">>,
       <<"O", "O", ".", "X", "X", "O", "X">>,
       <<"X", "X", "O", "X", "O", "X", "O">>,
       <<"X", "O", "O", "X", "O", "X", "X">>,
       <<"O", "X", "X", "O", "X", "O", "X">>,
       <<"X", "O", "O", "O", "X", "O", "X">> >>

WellStacked(b) ==
    \A r \in 0..(ROWS - 2), c \in 0..(COLS - 1) : At(b, r, c) # "." => At(b, r + 1, c) # "."

Marks == {"X", "O"}

(***************************************************************************)
(* ---- rules.c: the board of the two-player game ----                     *)
(* int board[ROWS][COLS], row 0 on top: a tuple of ROWS rows, each a tuple  *)
(* of COLS cells holding EMPTY, A or B.                                     *)

EMPTY == 0

A == 1

B == 2

Players == {A, B}

init_board == [r \in 1..ROWS |-> [c \in 1..COLS |-> EMPTY]]

in_bounds(r, c) == r >= 0 /\ r < ROWS /\ c >= 0 /\ c < COLS

\* The loop of place_checker run from the top row down.
place_checker_top_down(b, col, p) ==
    IF col < 0 \/ col >= COLS THEN [ret |-> -1, board |-> b]
    ELSE LET es == {r \in 0..(ROWS - 1) : At(b, r, col) = EMPTY}
         IN  IF es = {} THEN [ret |-> -1, board |-> b]
             ELSE LET r == CHOOSE x \in es : \A y \in es : x <= y
                  IN  [ret |-> r, board |-> [b EXCEPT ![r + 1][col + 1] = p]]

\* A place_checker that puts the checker on top of a full column.
place_checker_full_overwrite(b, col, p) ==
    IF col < 0 \/ col >= COLS THEN [ret |-> -1, board |-> b]
    ELSE LET es == {r \in 0..(ROWS - 1) : At(b, r, col) = EMPTY}
         IN  IF es = {} THEN [ret |-> 0, board |-> [b EXCEPT ![1][col + 1] = p]]
             ELSE LET r == CHOOSE x \in es : \A y \in es : x >= y
                  IN  [ret |-> r, board |-> [b EXCEPT ![r + 1][col + 1] = p]]

\* place_checker: the value returned and the board after the call.  The loop
\* runs r from ROWS - 1 down and stops at the first EMPTY cell of the column.
place_checker(b, col, p) ==
    IF col < 0 \/ col >= COLS THEN [ret |-> -1, board |-> b]
    ELSE LET es == {r \in 0..(ROWS - 1) : At(b, r, col) = EMPTY}
         IN  IF es = {} THEN [ret |-> -1, board |-> b]
             ELSE LET r == CHOOSE x \in es : \A y \in es : x >= y
                  IN  [ret |-> r, board |-> [b EXCEPT ![r + 1][col + 1] = p]]

RECURSIVE count_line(_, _, _, _, _, _)
count_line(b, r, c, dr, dc, p) ==
    IF in_bounds(r, c) /\ At(b, r, c) = p
    THEN 1 + count_line(b, r + dr, c + dc, dr, dc, p)
    ELSE 0

dirs == << <<0, 1>>, <<1, 0>>, <<1, 1>>, <<1, -1>> >>

\* The test from a cell with the cell itself counted in both directions.
CellWins_double_count(b, r, c, p) ==
    \E d \in 1..4 :
        LET f == count_line(b, r, c, dirs[d][1], dirs[d][2], p)
            bk == count_line(b, r, c, -dirs[d][1], -dirs[d][2], p)
        IN  f + bk >= 4

\* Lines 34-40: the test made from the cell (r, c) owned by p.
CellWins(b, r, c, p) ==
    \E d \in 1..4 :
        LET f == count_line(b, r, c, dirs[d][1], dirs[d][2], p)
            bk == count_line(b, r, c, -dirs[d][1], -dirs[d][2], p) - 1
        IN  f + bk >= 4

check_win(b, p) ==
    IF \E r \in 0..(ROWS - 1), c \in 0..(COLS - 1) : At(b, r, c) = p /\ CellWins(b, r, c, p)
    THEN 1 ELSE 0

CheckWins(b) == [p \in Players |-> check_win(b, p)]

(***************************************************************************)
(* ---- load_board (the threaded engine) ----                              *)
(* Position there has a third field, moves: the number of stones.          *)

\* The number of cells of column c, from row r upward, before the first cell
\* that holds neither botc nor opp (lines 767-785).
RECURSIVE ColumnHeight(_, _, _, _, _)
ColumnHeight(b, c, r, botc, opp) ==
    IF r < 0 THEN 0
    ELSE IF At(b, r, c) # botc /\ At(b, r, c) # opp THEN 0
    ELSE 1 + ColumnHeight(b, c, r - 1, botc, opp)

\* A load_board that gives every stone the bit of its row and skips the
\* other cells.
load_board_by_row(b, botc, opp) ==
    LET taken == {rc \in (0..(ROWS - 1)) \X (0..(COLS - 1)) :
                    At(b, rc[1], rc[2]) \in {botc, opp}}
        pBot == {rc[2] * 7 + (ROWS - 1 - rc[1]) : rc \in {x \in taken : At(b, x[1], x[2]) = botc}}
        pOpp == {rc[2] * 7 + (ROWS - 1 - rc[1]) : rc \in {x \in taken : At(b, x[1], x[2]) # botc}}
    IN  [position |-> pBot, mask |-> pBot \cup pOpp,
         moves |-> Cardinality(pBot) + Cardinality(pOpp)]

load_board(b, botc, opp) ==
    LET taken == {ch \in (0..(COLS - 1)) \X (0..(ROWS - 1)) :
                    ch[2] < ColumnHeight(b, ch[1], ROWS - 1, botc, opp)}
        pBot == {ch[1] * 7 + ch[2] : ch \in {x \in taken : At(b, ROWS - 1 - x[2], x[1]) = botc}}
        pOpp == {ch[1] * 7 + ch[2] : ch \in {x \in taken : At(b, ROWS - 1 - x[2], x[1]) # botc}}
    IN  [position |-> pBot, mask |-> pBot \cup pOpp,
         moves |-> Cardinality(pBot) + Cardinality(pOpp)]

(* ---- the variables a specification does not use ---- *)

EmptyPos == [position |-> {}, mask |-> {}]

IdleBB == bb = {} /\ won = 0

IdlePos == pos = EmptyPos /\ prev = EmptyPos /\ lastcol = -1 /\ plies = 0 /\ w4 = 0

IdleSearch == sdepth = -1 /\ smax = 0 /\ nm_val = 0 /\ nm_later = 0 /\ ref_val = 0

IdleHard ==
    /\ board = EmptyBoard /\ bot = "X" /\ pc = "idle" /\ result = 0
    /\ expired = FALSE /\ tt = EmptyTT /\ tt_generation = 1
    /\ killer_moves = InitKillers /\ history_table = InitHistory
    /\ depth = 0 /\ depth_cap = 0 /\ moves = <<>> /\ idx = 0 /\ alpha = 0 /\ beta = 0
    /\ local_best_move = 0 /\ best_val_for_depth = 0 /\ best_move = 0
    /\ last_completed_depth = 0 /\ last_score = 0 /\ timeout_flag = 0
    /\ node_counter = 0 /\ completed = <<>> /\ researches = 0

IdleRules ==
    /\ rboard = init_board /\ rprev = init_board /\ rcol = 0 /\ rplayer = EMPTY
    /\ rret = -2 /\ rcalls = 0 /\ cw = [p \in Players |-> 0]

IdleLoad ==
    /\ lgrid = EmptyBoard /\ lbot = "X" /\ llast = -1 /\ lmarks = 0
    /\ loaded = [position |-> {}, mask |-> {}, moves |-> 0]

IdleTT ==
    /\ tdepth = 0 /\ twin = <<0, 0>> /\ tslot = InitEntry /\ tafter = InitEntry
    /\ tval = 0 /\ tnodes = 0 /\ ttab = EmptyTT /\ tcalls = 0 /\ treal = FALSE

IdleAge == acalls = 0 /\ aslot = InitEntry /\ awritten = 0

IdleCancel ==
    frames = <<>> /\ cpc = "idle" /\ carg = EmptyPos /\ cval = 0 /\ cmax = 0 /\ cex = NoExpiry /\ cstart = 0

IdlePart ==
    taccess = <<>>

IdlePar ==
    /\ ppc = "idle" /\ pdepth = 0 /\ phave = 0 /\ plast = 0 /\ pbest = 3 /\ pscore = 0
    /\ palpha = 0 /\ pbeta = 0 /\ pwindow = 0 /\ plocal = <<3, 0>> /\ pcols = <<>>
    /\ pn = 0 /\ tup = FALSE /\ timeExpired = 0 /\ tasks = <<>> /\ wpc = <<>>
    /\ wleft = <<>> /\ gint = {} /\ gprev = <<3, 0>>

IdleThreat ==
    tsp = <<>> /\ tsd = 0 /\ tsst = <<>> /\ tsr = 0 /\ tspc = "idle" /\ tsn = 0

IdleUse ==
    ub = <<>> /\ ubot = "" /\ upos = <<>> /\ upc = "idle" /\ uret = 0 /\ uvia = "" /\ ust = <<>> /\ ucols = <<>> /\ ui = 0 /\ ureplies = <<>> /\ uj = 0 /\ ulog = <<>> /\ utss = -1 /\ uhow = ""

IdleEval ==
    evp = <<>> /\ evw4 = 0 /\ evt = -1 /\ evs = 0 /\ evn = 0

IdleOrder ==
    onode = <<>> /\ odep = 0 /\ omax = 0 /\ octx = <<>> /\ oord = <<>> /\ ocuts = 0

IdleKey ==
    kp = <<>> /\ kq = <<>> /\ kpf = -1 /\ kqf = -1

IdleGame ==
    gloop = "" /\ gbot = FALSE /\ gidx = 0 /\ gdiff = "" /\ gver = 0 /\ gboard = <<>> /\ gcur = 0 /\ gover = FALSE /\ gpc = "idle" /\ gcol = 0 /\ gfn = "" /\ gseen = <<>> /\ gin = <<>> /\ gres = ""

IdleExt == IdleRules /\ IdleLoad /\ IdleTT /\ IdleAge /\ IdleCancel /\ IdlePart /\ IdlePar /\ IdleThreat /\ IdleUse /\ IdleEval /\ IdleOrder /\ IdleKey /\ IdleGame

(***************************************************************************)
(* SpecBB: has_won_bb applied to every set of at most MaxStones cells.     *)
(* The cells are added in increasing bit order, so every set is built once.*)
(***************************************************************************)

MaxStones == 4

InitBB ==
    /\ bb = {}
    /\ won = has_won_bb({})
    /\ IdlePos /\ IdleSearch /\ IdleHard /\ IdleExt

AddCell(b) ==
    /\ Cardinality(bb) < MaxStones
    /\ \A x \in bb : x < b
    /\ bb' = bb \cup {b}
    /\ won' = has_won_bb(bb')
    /\ UNCHANGED <<posvars, searchvars, hardvars, extvars>>

NextBB == \E b \in Cells : AddCell(b)

SpecBB == InitBB /\ [][NextBB]_vars

\* The reference scanner: the four-cell lines of the 6x7 grid, each starting
\* at (r, c) and stepping by (dr, dc), as sets of bit indices c * 7 + r.
InGrid(r, c) == r \in 0..(ROWS - 1) /\ c \in 0..(COLS - 1)

Lines ==
    {{(c + i * d[2]) * H + (r + i * d[1]) : i \in 0..3} :
        <<r, c, d>> \in {<<r, c, d>> \in
            (0..(ROWS - 1)) \X (0..(COLS - 1)) \X {<<0, 1>>, <<1, 0>>, <<1, 1>>, <<1, -1>>} :
            InGrid(r + 3 * d[1], c + 3 * d[2])}}

NaiveWin(S) == \E L \in Lines : L \subseteq S

\* C6: has_won_bb(bb) = 1 iff the naive per-cell scan of the grid finds four
\* cells of bb consecutive in a column, a row or a diagonal (no run wraps
\* from the top of one column into the bottom of the next).
C6_HasWonIffNaive == (won = 1) <=> NaiveWin(bb)

\* A four-in-a-row is present and detected.
C6_Witness == Cardinality(bb) = 4 /\ won = 1 /\ NaiveWin(bb)

(***************************************************************************)
(* SpecPos: the Positions the engine builds.  The root is built from a     *)
(* well-stacked board; the engine applies make_move only to a column for   *)
(* which can_play holds (gen_moves, count_immediate_wins, the root loops), *)
(* and flips the point of view without a move (opp_view).                  *)
(***************************************************************************)

MaxPlies == 3

PosBoards == CutBoards \cup {EmptyBoard}

InitPos ==
    /\ \E b \in PosBoards, m \in Marks : pos = build_position(b, m)
    /\ prev = pos
    /\ lastcol = -1
    /\ plies = 0
    /\ w4 = 0
    /\ IdleBB /\ IdleSearch /\ IdleHard /\ IdleExt

Play(col) ==
    /\ plies < MaxPlies
    /\ can_play(pos, col)
    /\ pos' = make_move(pos, col)
    /\ prev' = pos
    /\ lastcol' = col
    /\ plies' = plies + 1
    /\ UNCHANGED <<w4, bbvars, extvars, searchvars, hardvars>>

Flip ==
    /\ plies < MaxPlies
    /\ pos' = flip_view(pos)
    /\ prev' = pos
    /\ lastcol' = -1
    /\ plies' = plies + 1
    /\ UNCHANGED <<w4, bbvars, extvars, searchvars, hardvars>>

NextPos == (\E col \in 0..(COLS - 1) : Play(col)) \/ Flip

SpecPos == InitPos /\ [][NextPos]_vars

ColumnBits(w, col) == {b \in w : b \div H = col}

\* C7: in every Position the engine reaches, position is a subset of mask,
\* the set bits of mask are contiguous from row 0 in every column, no sentinel
\* bit (row 6) or bit above the board is set, and can_play(p, col) holds iff
\* column col holds fewer than 6 stones.
C7_PositionInvariant ==
    /\ pos.position \subseteq pos.mask
    /\ pos.mask \subseteq Cells
    /\ \A b \in pos.mask : b % H = 0 \/ (b - 1) \in pos.mask
    /\ \A col \in 0..(COLS - 1) :
          can_play(pos, col) <=> Cardinality(ColumnBits(pos.mask, col)) < ROWS

\* A make_move has just filled a column.
C7_Witness ==
    /\ lastcol >= 0
    /\ Cardinality(ColumnBits(pos.mask, lastcol)) = ROWS
    /\ ~can_play(pos, lastcol)

\* The lowest empty cell of column col in p (columns are stacked from row 0).
LowestEmpty(p, col) == col * H + Cardinality(ColumnBits(p.mask, col))

\* C8: after make_move(p, c) the child's mask is p.mask plus exactly the lowest
\* empty cell of column c, the child's position is p.mask XOR p.position, and
\* removing the added bit and swapping the roles back gives exactly p.
C8_MakeMoveRoundTrip ==
    lastcol >= 0 =>
        LET added == LowestEmpty(prev, lastcol)
            m0 == pos.mask \ {added}
        IN  /\ added \notin prev.mask
            /\ pos.mask = prev.mask \cup {added}
            /\ pos.position = Xor(prev.mask, prev.position)
            /\ [position |-> Xor(m0, pos.position), mask |-> m0] = prev

\* A move was made on a position that already held stones of both players.
C8_Witness ==
    /\ lastcol >= 0
    /\ prev.position # {}
    /\ prev.position # prev.mask

(***************************************************************************)
(* SpecSearch: negamax called with the full window, an empty table and no  *)
(* timeout on a node at root-ply k of a search of max_depth m, next to the *)
(* full-width negamax.                                                     *)
(***************************************************************************)

MaxSearchDepth == 2

W4Choices == {0, WIN_SCORE}

SearchBoards == CutBoardsOn({1, 3, 4, 7}) \cup {LmpBoard}

FreshContext(w4v) ==
    [tt |-> EmptyTT, km |-> InitKillers, hist |-> InitHistory, gen |-> 1,
     nc |-> 0, to |-> 0, w4 |-> w4v, ex |-> NoExpiry]

InitSearch ==
    /\ \E b \in SearchBoards, m \in Marks : pos = build_position(b, m)
    /\ prev = pos
    /\ lastcol = -1
    /\ plies = 0
    /\ w4 \in W4Choices
    /\ IdleBB /\ IdleSearch /\ IdleHard /\ IdleExt

\* One move of the search below the root position.
Descend(col) ==
    /\ sdepth = -1
    /\ plies = 0
    /\ can_play(pos, col)
    /\ pos' = make_move(pos, col)
    /\ prev' = pos
    /\ lastcol' = col
    /\ plies' = plies + 1
    /\ UNCHANGED <<w4, bbvars, extvars, searchvars, hardvars>>

Search(k, m) ==
    /\ sdepth = -1
    /\ k <= m
    /\ sdepth' = m - k
    /\ smax' = m
    /\ nm_val' = negamax(pos, m - k, m, -WIN_SCORE, WIN_SCORE, FreshContext(w4)).val
    /\ nm_later' = IF k + 2 <= m
                   THEN negamax(pos, m - k - 2, m, -WIN_SCORE, WIN_SCORE, FreshContext(w4)).val
                   ELSE 0
    /\ ref_val' = plain_negamax(pos, m - k, m, w4)
    /\ UNCHANGED <<posvars, bbvars, extvars, hardvars>>

NextSearch ==
    \/ \E col \in 0..(COLS - 1) : Descend(col)
    \/ \E m \in 0..MaxSearchDepth, k \in 0..MaxSearchDepth : Search(k, m)

SpecSearch == InitSearch /\ [][NextSearch]_vars

\* C9: negamax with the full window, an empty transposition table and no
\* timeout returns the score of the full-width negamax at the same depth
\* (stated for the builds in which the word after W[3] is 0).
C9_NegamaxEqualsFullWidth == (sdepth >= 0 /\ w4 = 0) => nm_val = ref_val

MaxDepth == 1

MaxEmpties == 7

\* The calls: the board and the mark of the bot.
HardCalls ==
    ((CutBoardsOn({1, 3, 4, 7}) \cup {EmptyBoard, RaceBoard, ThreatBoard}) \X Marks)
        \cup {<<DeepBoard, "X">>, <<FloatBoard, "X">>, <<TrapBoard, "X">>}

InitHard ==
    /\ \E call \in HardCalls : board = call[1] /\ bot = call[2]
    /\ w4 \in W4Choices
    /\ pc = "call"
    /\ result = 0
    /\ expired = FALSE
    /\ tt = EmptyTT /\ tt_generation = 1
    /\ killer_moves = InitKillers /\ history_table = InitHistory
    /\ depth = 0 /\ depth_cap = 0 /\ moves = <<>> /\ idx = 0 /\ alpha = 0 /\ beta = 0
    /\ local_best_move = 0 /\ best_val_for_depth = 0 /\ best_move = 0
    /\ last_completed_depth = 0 /\ last_score = 0 /\ timeout_flag = 0
    /\ node_counter = 0 /\ completed = <<>> /\ researches = 0
    /\ pos = EmptyPos /\ prev = EmptyPos /\ lastcol = -1 /\ plies = 0
    /\ IdleBB /\ IdleSearch /\ IdleExt

searchlocals == <<depth, depth_cap, moves, idx, alpha, beta, local_best_move,
                  best_val_for_depth, best_move, last_completed_depth, last_score,
                  timeout_flag, node_counter, completed, researches>>

\* Lines 560-646: tables reset, root Position, book, immediate win, immediate
\* block, and the set-up of the iterative deepening.
Enter ==
    /\ pc = "call"
    /\ \E p \in {build_position(board, bot)} :
       \E book \in {BookMove(board, bot)} :
       \E win \in {ImmediateWin(p)} :
       \E block \in {ImmediateBlock(p)} :
       \E early \in {IF book # 0 THEN book ELSE IF win # 0 THEN win ELSE block} :
           /\ pos' = p
           /\ tt_generation' = NextGeneration(tt_generation)
           /\ killer_moves' = InitKillers
           /\ history_table' = InitHistory
           /\ IF early # 0
              THEN /\ result' = early
                   /\ pc' = "done"
                   /\ UNCHANGED searchlocals
              ELSE /\ result' = 0
                   /\ pc' = "depth"
                   /\ depth_cap' = CountCells(board, {"."})
                   /\ depth' = 1
                   /\ best_move' = DefaultMove(p)
                   /\ timeout_flag' = 0 /\ node_counter' = 0
                   /\ last_completed_depth' = 0 /\ last_score' = 0
                   /\ UNCHANGED <<moves, idx, alpha, beta, local_best_move,
                                  best_val_for_depth, completed, researches>>
    /\ UNCHANGED <<board, bot, w4, expired, tt, prev, lastcol, plies, bbvars, extvars, searchvars>>

\* Lines 648-667: the head of one depth iteration.
BeginDepth ==
    /\ pc = "depth"
    /\ depth <= MaxDepth \/ depth_cap <= MaxEmpties \/ expired
    /\ IF depth > depth_cap
       THEN /\ pc' = "finish"
            /\ UNCHANGED <<local_best_move, best_val_for_depth, timeout_flag, moves, idx>>
       ELSE LET root_key == tt_key(pos)
                mv == TTMoveFirst(gen_moves(pos), TTGet(tt, root_key), root_key, tt_generation)
            IN  /\ local_best_move' = best_move
                /\ best_val_for_depth' = -WIN_SCORE
                /\ timeout_flag' = 0
                /\ moves' = mv
                /\ idx' = 0
                /\ pc' = IF Len(mv) = 0 THEN "finish" ELSE "move"
    /\ UNCHANGED <<board, bot, w4, expired, result, tt, tt_generation, killer_moves,
                   history_table, depth, depth_cap, alpha, beta, best_move,
                   last_completed_depth, last_score, node_counter, completed,
                   researches, posvars, bbvars, extvars, searchvars>>

\* Lines 669-682: the next root move and its first window.
BeginMove ==
    /\ pc = "move"
    /\ IF idx >= Len(moves)
       THEN pc' = "enddepth" /\ UNCHANGED <<alpha, beta>>
       ELSE /\ alpha' = FirstWindow(depth, last_score).alph
            /\ beta' = FirstWindow(depth, last_score).bet
            /\ pc' = "search"
    /\ UNCHANGED <<board, bot, w4, expired, result, tt, tt_generation, killer_moves,
                   history_table, depth, depth_cap, moves, idx, local_best_move,
                   best_val_for_depth, best_move, last_completed_depth, last_score,
                   timeout_flag, node_counter, completed, researches,
                   posvars, bbvars, extvars, searchvars>>

RootContext(ex) ==
    [tt |-> tt, km |-> killer_moves, hist |-> history_table, gen |-> tt_generation,
     nc |-> node_counter, to |-> timeout_flag, w4 |-> w4, ex |-> ex]

\* The values of node_counter at which the call r reads the clock.
ClockReads(r) == {n \in (node_counter + 1)..r.st.nc : n % 128 = 0}

\* Lines 685-717: one pass of the re-search loop of root move idx: clamp, call
\* negamax, then stop on a timeout, widen the window and search again, or
\* record the score and go to the next move.
SearchRootMove ==
    /\ pc = "search"
    /\ LET col == moves[idx + 1]
           child == make_move(pos, col)
           a == ClampLow(alpha)
           b == ClampHigh(beta)
       IN  \E free \in {negamax(child, depth - 1, depth, -b, -a, RootContext(NoExpiry))} :
           \E ex \in (IF expired THEN {0} ELSE ClockReads(free) \cup {NoExpiry}) :
           \E r \in {IF ex = NoExpiry THEN free
                     ELSE negamax(child, depth - 1, depth, -b, -a, RootContext(ex))} :
           \E score \in {-r.val} :
           \E w \in {Widen(score, a, b, depth)} :
                 /\ tt' = r.st.tt
                 /\ killer_moves' = r.st.km
                 /\ history_table' = r.st.hist
                 /\ node_counter' = r.st.nc
                 /\ timeout_flag' = r.st.to
                 /\ expired' = (expired \/ r.st.to = 1)
                 /\ IF r.st.to = 1
                    THEN /\ pc' = "enddepth"
                         /\ alpha' = a /\ beta' = b
                         /\ UNCHANGED <<idx, local_best_move, best_val_for_depth, researches>>
                    ELSE IF w = "low"
                    THEN /\ pc' = "search"
                         /\ alpha' = WidenLow(a) /\ beta' = b
                         /\ researches' = researches + 1
                         /\ UNCHANGED <<idx, local_best_move, best_val_for_depth>>
                    ELSE IF w = "high"
                    THEN /\ pc' = "search"
                         /\ alpha' = a /\ beta' = WidenHigh(b)
                         /\ researches' = researches + 1
                         /\ UNCHANGED <<idx, local_best_move, best_val_for_depth>>
                    ELSE /\ pc' = "move"
                         /\ alpha' = a /\ beta' = b
                         /\ idx' = idx + 1
                         /\ UNCHANGED researches
                         /\ best_val_for_depth' =
                                IF score > best_val_for_depth THEN score ELSE best_val_for_depth
                         /\ local_best_move' =
                                IF score > best_val_for_depth THEN col + 1 ELSE local_best_move
    /\ UNCHANGED <<board, bot, w4, result, tt_generation, depth, depth_cap, moves,
                   best_move, last_completed_depth, last_score, completed,
                   posvars, bbvars, extvars, searchvars>>

\* The tail of a depth iteration that records the best move of the depth even
\* when the depth was interrupted.
EndDepth_keep_partial ==
    /\ pc = "enddepth"
    /\ best_move' = local_best_move
    /\ IF timeout_flag = 1
       THEN /\ pc' = "finish"
            /\ UNCHANGED <<last_completed_depth, last_score, depth, completed>>
       ELSE /\ last_completed_depth' = depth
            /\ last_score' = best_val_for_depth
            /\ completed' = Append(completed, local_best_move)
            /\ IF expired
               THEN pc' = "finish" /\ UNCHANGED depth
               ELSE pc' = "depth" /\ depth' = depth + 1
    /\ UNCHANGED <<board, bot, w4, expired, result, tt, tt_generation, killer_moves,
                   history_table, depth_cap, moves, idx, alpha, beta, local_best_move,
                   best_val_for_depth, timeout_flag, node_counter, researches,
                   posvars, bbvars, extvars, searchvars>>

\* Lines 720-726: the tail of one depth iteration.
EndDepth ==
    /\ pc = "enddepth"
    /\ IF timeout_flag = 1
       THEN /\ pc' = "finish"
            /\ UNCHANGED <<best_move, last_completed_depth, last_score, depth, completed>>
       ELSE /\ best_move' = local_best_move
            /\ last_completed_depth' = depth
            /\ last_score' = best_val_for_depth
            /\ completed' = Append(completed, local_best_move)
            /\ IF expired
               THEN pc' = "finish" /\ UNCHANGED depth
               ELSE pc' = "depth" /\ depth' = depth + 1
    /\ UNCHANGED <<board, bot, w4, expired, result, tt, tt_generation, killer_moves,
                   history_table, depth_cap, moves, idx, alpha, beta, local_best_move,
                   best_val_for_depth, timeout_flag, node_counter, researches,
                   posvars, bbvars, extvars, searchvars>>

\* Lines 728-741: the safety net and the return.
Finish ==
    /\ pc = "finish"
    /\ result' = SafeMove(board, pos, best_move)
    /\ pc' = "done"
    /\ UNCHANGED <<board, bot, w4, expired, tt, tt_generation, killer_moves,
                   history_table, searchlocals, posvars, bbvars, extvars, searchvars>>

\* The clock reaches the limit.
Tick ==
    /\ pc \in {"call", "depth", "move", "search", "enddepth"}
    /\ ~expired
    /\ expired' = TRUE
    /\ UNCHANGED <<board, bot, w4, pc, result, tt, tt_generation, killer_moves,
                   history_table, searchlocals, posvars, bbvars, extvars, searchvars>>

NextHard ==
    \/ Enter
    \/ BeginDepth
    \/ BeginMove
    \/ SearchRootMove
    \/ EndDepth
    \/ Finish
    \/ Tick

SpecHard == InitHard /\ [][NextHard]_vars

\* The clock expires at the bound on the depth.
TickAtBound == Tick /\ pc = "depth" /\ depth > MaxDepth /\ depth_cap > MaxEmpties

\* The call runs on: every step of the program that can be taken is taken in
\* the end, and the clock is free never to expire.  SearchRootMove is enabled
\* exactly when pc = "search", so its weak fairness is written out.
FairHard ==
    /\ SpecHard
    /\ WF_vars(Enter) /\ WF_vars(BeginDepth) /\ WF_vars(BeginMove)
    /\ WF_vars(EndDepth) /\ WF_vars(Finish) /\ WF_vars(TickAtBound)
    /\ ([]<>(pc # "search") \/ []<><<SearchRootMove>>_vars)

(* ---- the contract of getBotMoveHard ---- *)

Playable(b) == {c \in 0..(COLS - 1) : At(b, 0, c) = "."}

Other(who) == IF who = "X" THEN "O" ELSE "X"

\* The cells of who on b, as bit indices c * 7 + row from the bottom.
StonesOf(b, who) ==
    {c * H + (ROWS - 1 - r) : <<r, c>> \in
        {rc \in (0..(ROWS - 1)) \X (0..(COLS - 1)) : At(b, rc[1], rc[2]) = who}}

\* The lowest empty cell of column c of a well-stacked board b.
DropCell(b, c) == c * H + Cardinality({r \in 0..(ROWS - 1) : At(b, r, c) # "."})

\* The playable columns of b whose lowest empty cell completes four for who.
BoardWins(b, who) ==
    {c \in Playable(b) : NaiveWin(StonesOf(b, who) \cup {DropCell(b, c)})}

\* C1: on every board with a column whose top cell is empty, and whenever the
\* clock expires, the column getBotMoveHard returns is in 1..7 and its top
\* cell is empty.
C1_ReturnsPlayableColumn ==
    (pc = "done" /\ Playable(board) # {}) =>
        (result \in 1..COLS /\ (result - 1) \in Playable(board))

\* The call returned after the clock had expired inside a search.
C1_Witness ==
    /\ pc = "done"
    /\ timeout_flag = 1
    /\ Cardinality(Playable(board)) >= 2
    /\ (result - 1) \in Playable(board)

\* The book named a column whose top cell is taken, and the call went on.
C1_BookGuardWitness ==
    /\ pc = "done"
    /\ opening_book_move(board, bot) # 0
    /\ BookMove(board, bot) = 0
    /\ (result - 1) \in Playable(board)

\* C2: when the deadline is detected while depth d is searched, the call
\* returns the best move recorded when depth d - 1 completed, or for d = 1 the
\* default column, whatever the interrupted depth had found.
C2_InterruptedDepthDiscarded ==
    (pc = "done" /\ timeout_flag = 1) =>
        /\ depth = last_completed_depth + 1
        /\ Len(completed) = last_completed_depth
        /\ result = IF last_completed_depth = 0 THEN DefaultMove(pos)
                    ELSE completed[last_completed_depth]

\* A depth was interrupted after it had found a better move than the one the
\* depth before it recorded.
C2_Witness ==
    /\ pc = "done"
    /\ timeout_flag = 1
    /\ last_completed_depth >= 1
    /\ local_best_move # completed[last_completed_depth]
    /\ result = completed[last_completed_depth]

\* C3: on a well-stacked board on which the bot has a column that completes
\* four for it, the returned column is such a column, whatever the clock does
\* and whatever the opponent threatens.
C3_TakesImmediateWin ==
    (pc = "done" /\ WellStacked(board) /\ BoardWins(board, bot) # {}) =>
        (result - 1) \in BoardWins(board, bot)

\* The bot took its win although the opponent threatened another column and
\* the clock had expired.
C3_Witness ==
    /\ pc = "done"
    /\ expired
    /\ WellStacked(board)
    /\ (result - 1) \in BoardWins(board, bot)
    /\ BoardWins(board, Other(bot)) \ BoardWins(board, bot) # {}

\* C4: on a well-stacked board on which the bot has no winning column and the
\* opponent has one, the returned column is a column in which the opponent
\* would win, whatever the clock does.
C4_BlocksImmediateLoss ==
    (pc = "done" /\ WellStacked(board) /\ BoardWins(board, bot) = {}
        /\ BoardWins(board, Other(bot)) # {}) =>
        (result - 1) \in BoardWins(board, Other(bot))

\* The bot, without a win of its own, blocked after the clock had expired.
C4_Witness ==
    /\ pc = "done"
    /\ expired
    /\ WellStacked(board)
    /\ BoardWins(board, bot) = {}
    /\ (result - 1) \in BoardWins(board, Other(bot))

\* The board after who drops a stone into the playable column c.
Drop(b, c, who) ==
    LET row == CHOOSE r \in 0..(ROWS - 1) :
                   At(b, r, c) = "." /\ \A x \in (r + 1)..(ROWS - 1) : At(b, x, c) # "."
    IN  [r \in 1..ROWS |-> [cc \in 1..COLS |->
            IF r = row + 1 /\ cc = c + 1 THEN who ELSE b[r][cc]]]

\* The playable columns after which the opponent has a reply that does not win
\* at once and leaves the opponent two or more columns that complete four.
TrapMoves(b, who) ==
    {c \in Playable(b) :
        LET b1 == Drop(b, c, who)
        IN  \E r \in Playable(b1) :
                /\ r \notin BoardWins(b1, Other(who))
                /\ Cardinality(BoardWins(Drop(b1, r, Other(who)), Other(who))) >= 2}

\* C11: on a well-stacked board where the bot has no column that wins at once
\* and none to block, and exactly one playable column is a trap move, the
\* column returned after the search has completed depth 2 or more is not the
\* trap move.
C11_AvoidsDoubleThreat ==
    (pc = "done" /\ last_completed_depth >= 2 /\ WellStacked(board)
        /\ BoardWins(board, bot) = {} /\ BoardWins(board, Other(bot)) = {}
        /\ Cardinality(TrapMoves(board, bot)) = 1) =>
        (result - 1) \notin TrapMoves(board, bot)

\* C12: on the board without any stone the call returns column 4 from the
\* opening book, before any depth is searched, whether or not the clock has
\* expired.
C12_EmptyBoardCenter ==
    (pc = "done" /\ CountCells(board, {"X", "O"}) = 0) =>
        (result = 4 /\ depth = 0 /\ node_counter = 0)

\* The call on the empty board returned 4 although the clock had expired.
C12_Witness ==
    /\ pc = "done"
    /\ board = EmptyBoard
    /\ expired
    /\ result = 4

\* One more pass of the re-search loop of a root move.
IsResearch == pc = "search" /\ pc' = "search" /\ researches' = researches + 1

\* C5: the call returns on every board, also when the clock never expires:
\* the depth searched never exceeds the number of empty cells, every re-search
\* of a root move strictly widens one bound of the clamped window and leaves
\* the other alone, and the call reaches its return.
C5_Terminates ==
    /\ [](pc \in {"move", "search", "enddepth"} =>
            (depth <= depth_cap /\ depth_cap = CountCells(board, {"."})))
    /\ [][IsResearch =>
            \/ ClampLow(alpha') < ClampLow(alpha) /\ ClampHigh(beta') = ClampHigh(beta)
            \/ ClampHigh(beta') > ClampHigh(beta) /\ ClampLow(alpha') = ClampLow(alpha)]_vars
    /\ <>(pc = "done")

\* The call returned without any expiry of the clock after it had searched
\* every depth up to the number of empty cells and had widened a window.
C5_Witness ==
    /\ pc = "done"
    /\ ~expired
    /\ researches > 0
    /\ last_completed_depth = depth_cap
    /\ depth_cap >= 3

(***************************************************************************)
(* SpecRules: a game on the board of rules.c.  Every move of the game is   *)
(* one call of place_checker followed by check_win; the columns tried are  *)
(* the two edge columns and the two values next to the valid range.        *)
(***************************************************************************)

MaxCalls == 7

PlaceCols == {-1, 0, COLS - 1, COLS}

InitRules ==
    /\ IdleRules
    /\ IdleBB /\ IdlePos /\ IdleSearch /\ IdleHard /\ IdleLoad /\ IdleTT /\ IdleAge /\ IdleCancel /\ IdlePart /\ IdlePar /\ IdleThreat /\ IdleUse /\ IdleEval /\ IdleOrder /\ IdleKey /\ IdleGame

PlaceChecker(col, p) ==
    /\ rcalls < MaxCalls
    /\ \E out \in {place_checker(rboard, col, p)} :
          /\ rboard' = out.board
          /\ rret' = out.ret
          /\ cw' = CheckWins(out.board)
    /\ rprev' = rboard
    /\ rcol' = col
    /\ rplayer' = p
    /\ rcalls' = rcalls + 1
    /\ UNCHANGED <<bbvars, posvars, searchvars, hardvars, loadvars, ttvars, agevars, cancelvars, partvars, parvars, threatvars, usevars, evalvars, ordervars, keyvars, gamevars>>

NextRules == \E col \in PlaceCols, p \in Players : PlaceChecker(col, p)

SpecRules == InitRules /\ [][NextRules]_vars

\* The number of checkers in column col of the board b.
ColumnCount(b, col) == Cardinality({r \in 0..(ROWS - 1) : At(b, r, col) # EMPTY})

\* C13: place_checker(board, col, p) with 0 <= col < COLS on a column that is
\* not full returns the row of the lowest empty cell of the column, which is
\* ROWS - 1 - k for the k-th checker of the column (k = 0..5), writes p into
\* that cell and changes no other cell.
C13_PlaceLandsOnLowestEmpty ==
    (rcalls > 0 /\ in_bounds(0, rcol) /\ ColumnCount(rprev, rcol) < ROWS) =>
        LET k == ColumnCount(rprev, rcol)
        IN  /\ rret = ROWS - 1 - k
            /\ At(rprev, rret, rcol) = EMPTY
            /\ \A r \in (rret + 1)..(ROWS - 1) : At(rprev, r, rcol) # EMPTY
            /\ At(rboard, rret, rcol) = rplayer
            /\ \A r \in 0..(ROWS - 1), c \in 0..(COLS - 1) :
                   <<r, c>> # <<rret, rcol>> => At(rboard, r, c) = At(rprev, r, c)

\* The sixth checker of a column has landed in the top row.
C13_Witness ==
    /\ rret = 0
    /\ ColumnCount(rprev, rcol) = ROWS - 1
    /\ ColumnCount(rboard, rcol) = ROWS

\* C14: place_checker(board, col, p) returns -1 and leaves every cell as it
\* was when col < 0, when col >= COLS, and when column col holds 6 checkers.
C14_PlaceRejects ==
    (rcalls > 0 /\ (rcol < 0 \/ rcol >= COLS \/ ColumnCount(rprev, rcol) = ROWS)) =>
        (rret = -1 /\ rboard = rprev)

\* A checker was refused by a full column.
C14_Witness ==
    /\ rret = -1
    /\ in_bounds(0, rcol)
    /\ ColumnCount(rprev, rcol) = ROWS
    /\ rboard = rprev

(***************************************************************************)
(* SpecWin: check_win applied to boards on which A owns at most MaxOwned   *)
(* cells: cells of the five left columns of a board that is otherwise      *)
(* EMPTY, or cells of the four right columns of a board on which B owns    *)
(* every other cell.  The cells of A are set in row-major order, so every  *)
(* such board is built once.                                               *)
(***************************************************************************)

MaxOwned == 4

FilledBoard(p) == [r \in 1..ROWS |-> [c \in 1..COLS |-> p]]

\* The columns in which A is given cells on the board b.
OwnedCols(b) == IF At(b, 0, 0) = B THEN 3..(COLS - 1) ELSE 0..(COLS - 3)

\* The row-major index of the last cell of A on b, -1 if A owns none.
LastOwned(b) ==
    LET S == {r * COLS + c : <<r, c>> \in
                {rc \in (0..(ROWS - 1)) \X (0..(COLS - 1)) : At(b, rc[1], rc[2]) = A}}
    IN  IF S = {} THEN -1 ELSE CHOOSE x \in S : \A y \in S : y <= x

InitWin ==
    /\ rboard \in {init_board, FilledBoard(B)}
    /\ cw = CheckWins(rboard)
    /\ rprev = rboard /\ rcol = 0 /\ rplayer = EMPTY /\ rret = -2 /\ rcalls = 0
    /\ IdleBB /\ IdlePos /\ IdleSearch /\ IdleHard /\ IdleLoad /\ IdleTT /\ IdleAge /\ IdleCancel /\ IdlePart /\ IdlePar /\ IdleThreat /\ IdleUse /\ IdleEval /\ IdleOrder /\ IdleKey /\ IdleGame

SetCell(r, c) ==
    /\ rcalls < MaxOwned
    /\ rboard' = [rboard EXCEPT ![r + 1][c + 1] = A]
    /\ cw' = CheckWins(rboard')
    /\ rprev' = rboard
    /\ rcol' = c
    /\ rplayer' = A
    /\ rcalls' = rcalls + 1
    /\ UNCHANGED <<rret, bbvars, posvars, searchvars, hardvars, loadvars, ttvars, agevars, cancelvars, partvars, parvars, threatvars, usevars, evalvars, ordervars, keyvars, gamevars>>

NextWin ==
    \E last \in {LastOwned(rboard)} :
        \E r \in 0..(ROWS - 1), c \in OwnedCols(rboard) :
            r * COLS + c > last /\ SetCell(r, c)

SpecWin == InitWin /\ [][NextWin]_vars

\* The lines of four cells that p owns on the board b.
OwnedLines(b, p) == LET S == StonesOf(b, p) IN {L \in Lines : L \subseteq S}

\* C15: check_win(board, p) is 1 iff four cells owned by p are consecutive in
\* a row, a column or a diagonal of the board, and 0 otherwise (0 for both
\* players on the initial board); the test made from any cell of a run of A
\* finds it, so the result does not depend on the cell the scan reaches first.
C15_CheckWinIffFourInLine ==
    /\ \A p \in Players : cw[p] = (IF NaiveWin(StonesOf(rboard, p)) THEN 1 ELSE 0)
    /\ \A L \in OwnedLines(rboard, A) : \A bit \in L :
           CellWins(rboard, ROWS - 1 - (bit % H), bit \div H, A)

\* A has four in a line and B, owning every other cell, has four as well.
C15_Witness ==
    /\ rcalls = 4
    /\ cw[A] = 1 /\ NaiveWin(StonesOf(rboard, A))
    /\ cw[B] = 1

(***************************************************************************)
(* SpecLoad: load_board applied to grids of characters: a board of a game  *)
(* with up to MaxMarks cells of three of its columns rewritten, in row-    *)
(* major order, with any of the two marks, the empty cell or another       *)
(* character.  The grids have holes, floating stones and foreign           *)
(* characters.                                                             *)
(***************************************************************************)

MaxMarks == 2

LoadChars == {".", "X", "O", "#"}

LoadCols == {0, 2, 3}

InitLoad ==
    /\ lgrid \in {EmptyBoard, ThreatBoard}
    /\ lbot \in Marks
    /\ llast = -1
    /\ lmarks = 0
    /\ loaded = load_board(lgrid, lbot, Other(lbot))
    /\ IdleBB /\ IdlePos /\ IdleSearch /\ IdleHard /\ IdleRules /\ IdleTT /\ IdleAge /\ IdleCancel /\ IdlePart /\ IdlePar /\ IdleThreat /\ IdleUse /\ IdleEval /\ IdleOrder /\ IdleKey /\ IdleGame

Rewrite(r, c, ch) ==
    /\ lmarks < MaxMarks
    /\ r * COLS + c > llast
    /\ lgrid' = [lgrid EXCEPT ![r + 1][c + 1] = ch]
    /\ loaded' = load_board(lgrid', lbot, Other(lbot))
    /\ llast' = r * COLS + c
    /\ lmarks' = lmarks + 1
    /\ UNCHANGED <<lbot, bbvars, posvars, searchvars, hardvars, rulevars, ttvars, agevars, cancelvars, partvars, parvars, threatvars, usevars, evalvars, ordervars, keyvars, gamevars>>

NextLoad == \E r \in 0..(ROWS - 1), c \in LoadCols, ch \in LoadChars : Rewrite(r, c, ch)

SpecLoad == InitLoad /\ [][NextLoad]_vars

\* The character of the grid b at the cell of bit index bit.
GridAt(b, bit) == At(b, ROWS - 1 - (bit % H), bit \div H)

\* C16: for every grid of characters the Position load_board builds has, in
\* every column, the cells below the first cell (from the bottom) that holds
\* no mark of a player, and nothing above it; position is the part of mask
\* that holds the mark of the bot; and moves is the number of bits of mask.
C16_LoadBoardWellFormed ==
    /\ loaded.position \subseteq loaded.mask
    /\ loaded.mask \subseteq Cells
    /\ \A bit \in loaded.mask : bit % H = 0 \/ (bit - 1) \in loaded.mask
    /\ \A bit \in Cells :
          bit \in loaded.mask <=>
              \A low \in (bit - (bit % H))..bit : GridAt(lgrid, low) \in Marks
    /\ loaded.position = {bit \in loaded.mask : GridAt(lgrid, bit) = lbot}
    /\ loaded.moves = Cardinality(loaded.mask)

\* The grid holds a stone above a hole and a foreign character, and
\* load_board left the stone out.
C16_Witness ==
    /\ \E bit \in Cells : GridAt(lgrid, bit) \in Marks /\ bit \notin loaded.mask
    /\ \E bit \in Cells : GridAt(lgrid, bit) = "#"
    /\ loaded.position # {}
    /\ loaded.position # loaded.mask


(***************************************************************************)
(* SpecTT: negamax called on one inner node, once on a table whose slot    *)
(* for the node holds any entry, and again and again on the tables the     *)
(* call before left (the re-searches of the aspiration loop, lines         *)
(* 689-712, call negamax on the same child at the same depth with another  *)
(* window).                                                                *)
(***************************************************************************)

MaxProbeDepth == 1

MaxProbes == 2

TTBoards == {TrapBoard, DeepBoard}

\* The inner nodes: nobody has won, a column is free (lines 376-378, 420-421
\* do not return).
TTNodes ==
    {p \in {build_position(b, m) : b \in TTBoards, m \in Marks} :
        /\ has_won_bb(opponent_bb(p)) = 0
        /\ ~board_full_pos(p)}

\* The key of a position that is none of TTNodes and shares their slot
\* (tt_index keeps the low TT_BITS bits of the key, line 279).
OtherKey == tt_key(build_position(RaceBoard, "X"))

TTBounds == {-WIN_SCORE, 0, WIN_SCORE}

TTWindows == {w \in TTBounds \X TTBounds : w[1] < w[2]}

TTValues == {-64, 64}

\* The generation of the first search after init_tt (lines 303, 591-592).
ProbeGen == NextGeneration(1)

\* What a slot can hold: what init_tt wrote, an entry stored for the node in
\* this search, or a deep entry stored for the node in the search before or
\* for a position of the same slot in this search.
SlotEntries(p) ==
    {InitEntry}
    \cup [key : {tt_key(p)}, depth : 0..(MaxProbeDepth + 1), value : TTValues,
          flag : 0..2, move : {3}, gen : {ProbeGen}]
    \cup [key : {tt_key(p)}, depth : {MaxProbeDepth + 1}, value : {64},
          flag : 0..2, move : {3}, gen : {1}]
    \cup [key : {OtherKey}, depth : {MaxProbeDepth + 1}, value : {64},
          flag : 0..2, move : {3}, gen : {ProbeGen}]

InitTT ==
    /\ pos \in TTNodes
    /\ prev = pos
    /\ lastcol = -1
    /\ plies = 0
    /\ w4 \in W4Choices
    /\ tdepth \in 1..MaxProbeDepth
    /\ \E e \in SlotEntries(pos) :
          /\ treal = (e = InitEntry)
          /\ ttab = [FreshContext(w4) EXCEPT !.gen = ProbeGen,
                        !.tt = IF e = InitEntry THEN EmptyTT
                               ELSE TTPut(EmptyTT, tt_key(pos), e)]
    /\ twin = <<0, 0>> /\ tslot = InitEntry /\ tafter = InitEntry
    /\ tval = 0 /\ tnodes = 0 /\ tcalls = 0
    /\ IdleBB /\ IdleSearch /\ IdleHard /\ IdleRules /\ IdleLoad /\ IdleAge /\ IdleCancel /\ IdlePart /\ IdlePar /\ IdleThreat /\ IdleUse /\ IdleEval /\ IdleOrder /\ IdleKey /\ IdleGame

\* One call negamax(pos, tdepth, tdepth, alph, bet) on the tables ttab.
ProbeNode(alph, bet) ==
    /\ tcalls < MaxProbes
    /\ tcalls >= 1 => treal
    /\ \E r \in {negamax(pos, tdepth, tdepth, alph, bet, [ttab EXCEPT !.nc = 0])} :
          /\ tslot' = TTGet(ttab.tt, tt_key(pos))
          /\ tafter' = TTGet(r.st.tt, tt_key(pos))
          /\ tval' = r.val
          /\ tnodes' = r.st.nc
          /\ ttab' = r.st
    /\ twin' = <<alph, bet>>
    /\ tcalls' = tcalls + 1
    /\ UNCHANGED <<tdepth, treal, bbvars, posvars, searchvars, hardvars, rulevars, loadvars, agevars, cancelvars, partvars, parvars, threatvars, usevars, evalvars, ordervars, keyvars, gamevars>>

NextTT == \E w \in TTWindows : ProbeNode(w[1], w[2])

SpecTT == InitTT /\ [][NextTT]_vars

\* The probe of the last call, from the slot it read.
LastProbe == TTProbe(tslot, tt_key(pos), ProbeGen, tdepth, twin[1], twin[2])

\* The slot the last call read is trusted: lines 399.
Trusted == tslot.key = tt_key(pos) /\ tslot.gen = ProbeGen /\ tslot.depth >= tdepth

\* The last call returned from the probe: pos is an inner node, so a call that
\* visits no other node has searched nothing.
ReturnedStored == tcalls >= 1 /\ tnodes = 1

\* C17: negamax returns a stored value without searching, or tightens alpha or
\* beta from a stored value, only when the slot's key is the key of the
\* position, its generation is tt_generation and its depth is at least
\* depth_rem; and it returns the stored value only when the flag is exact or
\* the tightened window is empty.
C17_ProbeTrustsOnlyMatchingEntry ==
    tcalls >= 1 =>
        /\ (ReturnedStored \/ LastProbe.alph # twin[1] \/ LastProbe.bet # twin[2]) => Trusted
        /\ ReturnedStored =>
              /\ tval = tslot.value
              /\ tslot.flag = 0 \/ LastProbe.alph >= LastProbe.bet
              /\ tafter = tslot
        /\ ReturnedStored <=> LastProbe.ret

\* C17: a lower bound of the node's own entry raised alpha to beta and the
\* stored value came back without a search.
C17_Witness ==
    /\ ReturnedStored /\ Trusted
    /\ tslot.flag = 1 /\ LastProbe.alph > twin[1] /\ LastProbe.alph >= LastProbe.bet
    /\ tval = tslot.value

\* The last call searched the node and reached the store of lines 543-553
\* (pos is an inner node and the clock of SpecTT never expires).
Stored == tcalls >= 1 /\ tnodes > 1

\* Lines 551-553 on the window the node was searched with.
BoundKind(v, alph, bet) == IF v <= alph THEN 2 ELSE IF v >= bet THEN 1 ELSE 0

\* C18: the store at the end of negamax, for any prior slot content: when the
\* slot holds a current-generation entry whose depth is strictly greater than
\* the depth being stored, no field of that entry is changed; otherwise every
\* field is overwritten with the new result.
C18_StoreKeepsDeeperEntry ==
    Stored =>
        IF tslot.gen = ProbeGen /\ tslot.depth > tdepth
        THEN tafter = tslot
        ELSE /\ tafter.key = tt_key(pos)
             /\ tafter.depth = tdepth
             /\ tafter.value = tval
             /\ tafter.flag = BoundKind(tval, LastProbe.alph, LastProbe.bet)
             /\ tafter.move \in {c \in 0..(COLS - 1) : can_play(pos, c)}
             /\ tafter.gen = ProbeGen

\* C19 as claimed: the bound kind stored for a node is determined by the
\* window the node was called with: upper bound iff best_val <= that alpha,
\* lower bound iff best_val >= that beta, exact iff alpha < best_val < beta.
\* Stated on nodes whose slot was as init_tt left it before the first call.
C19_FlagFromCalledWindow ==
    (Stored /\ treal /\ tafter.key = tt_key(pos) /\ tafter.depth = tdepth) =>
        tafter.flag = BoundKind(tval, twin[1], twin[2])

\* C19 amended: the bound kind stored for a node is determined by the window
\* left after the transposition probe tightened the window the node was
\* called with: upper bound iff best_val <= that alpha, lower bound iff
\* best_val >= that beta, exact iff it is strictly between them.
C19_FlagFromTightenedWindow ==
    Stored =>
        /\ tafter.flag = BoundKind(tval, LastProbe.alph, LastProbe.bet)
        /\ twin[1] <= LastProbe.alph /\ LastProbe.alph < LastProbe.bet
        /\ LastProbe.bet <= twin[2]
        /\ LastProbe.alph # twin[1] => (Trusted /\ tslot.flag = 1 /\ LastProbe.alph = tslot.value)
        /\ LastProbe.bet # twin[2] => (Trusted /\ tslot.flag = 2 /\ LastProbe.bet = tslot.value)

\* C19: a second search of the node found the lower bound the first one left,
\* raised alpha to it, and stored a bound kind that the called window would
\* not give.
C19_Witness ==
    /\ Stored /\ treal /\ tcalls = 2
    /\ LastProbe.alph > twin[1]
    /\ tafter.flag = 2
    /\ BoundKind(tval, twin[1], twin[2]) = 0

(***************************************************************************)
(* SpecAging: the calls of getBotMoveHard one process makes (the loops of  *)
(* part_006, lines 112-165, play game after game), as far as tt_generation *)
(* and the stamp of one slot of ttable go.                                 *)
(***************************************************************************)

MaxAgeCalls == 256

AgeKey == tt_key(build_position(TrapBoard, "X"))

hardrest == <<board, bot, pc, result, expired, tt, killer_moves,
              history_table, depth, depth_cap, moves, idx, alpha, beta,
              local_best_move, best_val_for_depth, best_move,
              last_completed_depth, last_score, timeout_flag, node_counter, completed,
              researches>>

InitAging ==
    /\ acalls = 0 /\ aslot = InitEntry /\ awritten = 0
    /\ IdleBB /\ IdlePos /\ IdleSearch /\ IdleHard /\ IdleRules /\ IdleLoad /\ IdleTT
    /\ IdleCancel /\ IdlePart /\ IdlePar /\ IdleThreat /\ IdleUse /\ IdleEval /\ IdleOrder /\ IdleKey /\ IdleGame

\* Lines 590-592: a call of getBotMoveHard begins.
BeginCall ==
    /\ acalls < MaxAgeCalls
    /\ acalls' = acalls + 1
    /\ tt_generation' = NextGeneration(tt_generation)
    /\ UNCHANGED <<aslot, awritten, hardrest, bbvars, posvars, searchvars,
                   rulevars, loadvars, ttvars, cancelvars, partvars, parvars, threatvars, usevars, evalvars, ordervars, keyvars, gamevars>>

\* Lines 543-553: a negamax of the current call stores into the slot.
StoreEntry ==
    /\ acalls >= 1
    /\ awritten < acalls
    /\ aslot' = TTStore(aslot, AgeKey, tt_generation, 1, 64, 3, -WIN_SCORE, WIN_SCORE)
    /\ awritten' = acalls
    /\ UNCHANGED <<acalls, hardvars, bbvars, posvars, searchvars,
                   rulevars, loadvars, ttvars, cancelvars, partvars, parvars, threatvars, usevars, evalvars, ordervars, keyvars, gamevars>>

NextAging == BeginCall \/ StoreEntry

SpecAging == InitAging /\ [][NextAging]_vars

\* C20: a transposition entry written during one getBotMoveHard call never
\* satisfies the probe condition gen == tt_generation during a later call,
\* however many calls the process makes.
C20_StaleEntryNeverCurrent ==
    (awritten >= 1 /\ acalls > awritten) => aslot.gen # tt_generation

(***************************************************************************)
(* SpecCancel: one call of negamax run frame by frame.  EnterNode is the   *)
(* part of a call before its move loop (lines 360-502), AfterChild the     *)
(* part of the move loop after a child has returned (lines 525-557), and   *)
(* Tick the moment clock() - start_time reaches TIME_LIMIT_SEC.  The       *)
(* tables and counters are the variables of getBotMoveHard.                *)
(***************************************************************************)

MaxCancelDepth == 2

\* How far below a multiple of 128 node_counter is when the call is made.
MaxLead == 8

CancelNodes == {build_position(b, "X") : b \in {TrapBoard, DeepBoard, LmpBoard}}

\* The context the operators of negamax read, from the variables.
CancelContext ==
    [tt |-> tt, km |-> killer_moves, hist |-> history_table, gen |-> tt_generation,
     nc |-> node_counter, to |-> timeout_flag, w4 |-> w4, ex |-> NoExpiry]

\* Lines 504-515: the 1-based index of the next move of frame f, from index
\* i on, that late-move pruning does not skip; Len(f.mv) + 1 if none.
RECURSIVE NextChild(_, _)
NextChild(f, i) ==
    IF i > Len(f.mv) THEN i
    ELSE IF LatePruned(f.depth_rem, i - 1, f.sc[i], f.alph) THEN NextChild(f, i + 1)
    ELSE i

\* Lines 517-524: the arguments of the call on the child of index f.i.
ChildCall(f) ==
    [p |-> make_move(f.p, f.mv[f.i]), depth_rem |-> f.depth_rem - 1,
     alph |-> -f.bet, bet |-> -f.alph]

\* Lines 417-502: the frame of a call that reaches its move loop.
NewFrame(a, st) ==
    LET key == tt_key(a.p)
        e == TTGet(st.tt, key)
        pr == TTProbe(e, key, st.gen, a.depth_rem, a.alph, a.bet)
        plyr == cmax - a.depth_rem
        ply == IF plyr >= MAX_PLY THEN MAX_PLY - 1 ELSE plyr
        mv1 == TTMoveFirst(gen_moves(a.p), e, key, st.gen)
        opp_cols == WinningCols(flip_view(a.p))
        sc1 == [i \in 1..Len(mv1) |-> move_score(a.p, mv1[i], e, key, ply, opp_cols, st)]
        srt == SelSort(mv1, sc1, 1)
    IN  [p |-> a.p, depth_rem |-> a.depth_rem, alph |-> pr.alph, bet |-> pr.bet,
         alpha0 |-> pr.alph, beta0 |-> pr.bet, mv |-> srt.moves, sc |-> srt.scores,
         i |-> 1, best_val |-> -WIN_SCORE, best_move |-> srt.moves[1], ply |-> ply]

\* Lines 543-556: the table after frame f has stored best_val.
StoreFrame(table, f, bv, bm) ==
    TTPut(table, tt_key(f.p),
          TTStore(TTGet(table, tt_key(f.p)), tt_key(f.p), tt_generation, f.depth_rem,
                  bv, bm, f.alpha0, f.beta0))

\* Lines 360-421: what a call does before its move loop: "return" with a
\* value, or "loop".
EnterKind(a, st) ==
    LET nc1 == st.nc + 1
        key == tt_key(a.p)
        pr == TTProbe(TTGet(st.tt, key), key, st.gen, a.depth_rem, a.alph, a.bet)
    IN  IF st.to = 1 THEN [kind |-> "return", val |-> 0, nc |-> st.nc, to |-> 1]
        ELSE IF nc1 % 128 = 0 /\ expired
        THEN [kind |-> "return", val |-> 0, nc |-> nc1, to |-> 1]
        ELSE IF has_won_bb(opponent_bb(a.p)) = 1
        THEN [kind |-> "return", val |-> LostValue(a.depth_rem, cmax), nc |-> nc1, to |-> 0]
        ELSE IF a.depth_rem = 0 \/ board_full_pos(a.p)
        THEN [kind |-> "return", val |-> LeafValue(a.p, a.depth_rem, cmax, st.w4),
              nc |-> nc1, to |-> 0]
        ELSE IF pr.ret THEN [kind |-> "return", val |-> pr.val, nc |-> nc1, to |-> 0]
        ELSE IF Len(gen_moves(a.p)) = 0
        THEN [kind |-> "return", val |-> 0, nc |-> nc1, to |-> 0]
        ELSE [kind |-> "loop", val |-> 0, nc |-> nc1, to |-> 0]

InitCancel ==
    /\ pos \in CancelNodes
    /\ prev = pos /\ lastcol = -1 /\ plies = 0
    /\ w4 \in W4Choices
    /\ cmax \in 1..MaxCancelDepth
    /\ carg = [p |-> pos, depth_rem |-> cmax, alph |-> -WIN_SCORE, bet |-> WIN_SCORE]
    /\ cpc = "enter" /\ frames = <<>> /\ cval = 0 /\ cex = NoExpiry
    /\ cstart \in (128 - MaxLead)..127
    /\ node_counter = cstart
    /\ board = EmptyBoard /\ bot = "X" /\ pc = "idle" /\ result = 0
    /\ expired = FALSE /\ tt = EmptyTT /\ tt_generation = ProbeGen
    /\ killer_moves = InitKillers /\ history_table = InitHistory
    /\ depth = 0 /\ depth_cap = 0 /\ moves = <<>> /\ idx = 0 /\ alpha = 0 /\ beta = 0
    /\ local_best_move = 0 /\ best_val_for_depth = 0 /\ best_move = 0
    /\ last_completed_depth = 0 /\ last_score = 0 /\ timeout_flag = 0
    /\ completed = <<>> /\ researches = 0
    /\ IdleBB /\ IdleSearch /\ IdleRules /\ IdleLoad /\ IdleTT /\ IdleAge /\ IdlePart /\ IdlePar /\ IdleThreat /\ IdleUse /\ IdleEval /\ IdleOrder /\ IdleKey /\ IdleGame

cancelrest == <<board, bot, pc, result, tt_generation, depth, depth_cap, moves, idx,
                alpha, beta, local_best_move, best_val_for_depth, best_move,
                last_completed_depth, last_score, completed, researches,
                cmax, cstart, bbvars, posvars, searchvars, rulevars, loadvars,
                ttvars, agevars, partvars, parvars, threatvars, usevars, evalvars, ordervars, keyvars, gamevars>>

\* The clock passes the limit.
CancelTick ==
    /\ cpc # "done"
    /\ ~expired
    /\ expired' = TRUE
    /\ cex' = node_counter + 1
    /\ UNCHANGED <<frames, cpc, carg, cval, tt, killer_moves, history_table,
                   timeout_flag, node_counter, cancelrest>>

\* Lines 360-502: the call carg runs up to its first child, or returns.
EnterNode ==
    /\ cpc = "enter"
    /\ \E k \in {EnterKind(carg, CancelContext)} :
          /\ node_counter' = k.nc
          /\ timeout_flag' = k.to
          /\ IF k.kind = "return"
             THEN /\ cval' = k.val
                  /\ cpc' = "return"
                  /\ UNCHANGED <<frames, carg>>
             ELSE \E f \in {NewFrame(carg, [CancelContext EXCEPT !.nc = k.nc])} :
                      /\ frames' = Append(frames, f)
                      /\ carg' = ChildCall(f)
                      /\ cpc' = "enter"
                      /\ UNCHANGED cval
    /\ UNCHANGED <<tt, killer_moves, history_table, expired, cex, cancelrest>>

\* The frame that goes on with the move loop although the flag is set.
StepFrame_ignores_timeout(f, score, st) ==
    LET bv == IF score > f.best_val THEN score ELSE f.best_val
        bm == IF score > f.best_val THEN f.mv[f.i] ELSE f.best_move
        a2 == IF score > f.alph THEN score ELSE f.alph
        g == [f EXCEPT !.alph = a2, !.best_val = bv, !.best_move = bm]
        j == NextChild(g, f.i + 1)
        cut == Cutoff(st, f.mv[f.i], f.depth_rem, f.ply)
    IN  IF a2 >= f.bet
        THEN [kind |-> "return", val |-> bv, frame |-> g, km |-> cut.km, hist |-> cut.hist,
              tt |-> StoreFrame(st.tt, f, bv, bm)]
        ELSE IF j > Len(f.mv)
        THEN [kind |-> "return", val |-> bv, frame |-> g, km |-> st.km, hist |-> st.hist,
              tt |-> StoreFrame(st.tt, f, bv, bm)]
        ELSE [kind |-> "loop", val |-> 0, frame |-> [g EXCEPT !.i = j],
              km |-> st.km, hist |-> st.hist, tt |-> st.tt]

\* Lines 525-557: what frame f does when its child has returned -score:
\* return (after a timeout at once, with 0 and no write), or go to the next
\* child.
StepFrame(f, score, st) ==
    LET bv == IF score > f.best_val THEN score ELSE f.best_val
        bm == IF score > f.best_val THEN f.mv[f.i] ELSE f.best_move
        a2 == IF score > f.alph THEN score ELSE f.alph
        g == [f EXCEPT !.alph = a2, !.best_val = bv, !.best_move = bm]
        j == NextChild(g, f.i + 1)
        cut == Cutoff(st, f.mv[f.i], f.depth_rem, f.ply)
    IN  IF st.to = 1
        THEN [kind |-> "return", val |-> 0, frame |-> f, km |-> st.km, hist |-> st.hist,
              tt |-> st.tt]
        ELSE IF a2 >= f.bet
        THEN [kind |-> "return", val |-> bv, frame |-> g, km |-> cut.km, hist |-> cut.hist,
              tt |-> StoreFrame(st.tt, f, bv, bm)]
        ELSE IF j > Len(f.mv)
        THEN [kind |-> "return", val |-> bv, frame |-> g, km |-> st.km, hist |-> st.hist,
              tt |-> StoreFrame(st.tt, f, bv, bm)]
        ELSE [kind |-> "loop", val |-> 0, frame |-> [g EXCEPT !.i = j],
              km |-> st.km, hist |-> st.hist, tt |-> st.tt]

\* Lines 525-557: the innermost frame takes the value its child returned.
AfterChild ==
    /\ cpc = "return"
    /\ frames # <<>>
    /\ \E s \in {StepFrame(frames[Len(frames)], -cval, CancelContext)} :
          /\ tt' = s.tt
          /\ killer_moves' = s.km
          /\ history_table' = s.hist
          /\ IF s.kind = "return"
             THEN /\ frames' = SubSeq(frames, 1, Len(frames) - 1)
                  /\ cval' = s.val
                  /\ cpc' = "return"
                  /\ UNCHANGED carg
             ELSE /\ frames' = [frames EXCEPT ![Len(frames)] = s.frame]
                  /\ carg' = ChildCall(s.frame)
                  /\ cpc' = "enter"
                  /\ UNCHANGED cval
    /\ UNCHANGED <<timeout_flag, node_counter, expired, cex, cancelrest>>

\* The root call has returned to its caller.
CancelDone ==
    /\ cpc = "return"
    /\ frames = <<>>
    /\ cpc' = "done"
    /\ UNCHANGED <<frames, carg, cval, tt, killer_moves, history_table, expired, cex,
                   timeout_flag, node_counter, cancelrest>>

NextCancel == CancelTick \/ EnterNode \/ AfterChild \/ CancelDone

SpecCancel == InitCancel /\ [][NextCancel]_vars

\* The frames, run one by one, end where the operator negamax ends.
CancelAgreesWithNegamax ==
    cpc = "done" =>
        LET r == negamax(pos, cmax, cmax, -WIN_SCORE, WIN_SCORE,
                         [tt |-> EmptyTT, km |-> InitKillers, hist |-> InitHistory,
                          gen |-> ProbeGen, nc |-> cstart, to |-> 0, w4 |-> w4, ex |-> cex])
        IN  /\ r.val = cval
            /\ r.st.tt = tt /\ r.st.km = killer_moves /\ r.st.hist = history_table
            /\ r.st.nc = node_counter /\ r.st.to = timeout_flag

\* C21: once timeout_flag is set, no transposition entry, killer move or
\* history score is written and no child is expanded (node_counter stays, no
\* frame is added); every frame in flight returns as soon as its child has
\* returned: each step takes the innermost frame away.
C21_CancelUnwinds ==
    [][timeout_flag = 1 =>
          /\ tt' = tt /\ killer_moves' = killer_moves /\ history_table' = history_table
          /\ node_counter' = node_counter
          /\ timeout_flag' = 1
          /\ cpc # "enter" /\ cpc' # "enter"
          /\ IF frames # <<>>
             THEN frames' = SubSeq(frames, 1, Len(frames) - 1) /\ cval' = 0
             ELSE frames' = <<>> /\ cval = 0]_vars

\* C21: the flag has just been set below two frames in flight, after a table
\* entry had been written.
C21_Witness ==
    /\ timeout_flag = 1 /\ cpc = "return" /\ cval = 0
    /\ Len(frames) = 2 /\ tt # EmptyTT

(***************************************************************************)
(* SpecPart: the slots of tt the worker threads of the root-parallel       *)
(* variant (part_002) touch.  Every probe and store of thread t goes       *)
(* through tt_index(key, t).                                               *)
(***************************************************************************)

TT_BITS == 22

NUM_THREADS == 7

\* The bitwise and / or of two naturals.
RECURSIVE BitAnd(_, _)
BitAnd(x, y) ==
    IF x = 0 \/ y = 0 THEN 0
    ELSE 2 * BitAnd(x \div 2, y \div 2) + (IF x % 2 = 1 /\ y % 2 = 1 THEN 1 ELSE 0)

RECURSIVE BitOr(_, _)
BitOr(x, y) ==
    IF x = 0 THEN y
    ELSE IF y = 0 THEN x
    ELSE 2 * BitOr(x \div 2, y \div 2) + (IF x % 2 = 1 \/ y % 2 = 1 THEN 1 ELSE 0)

TT_MASK == 2 ^ TT_BITS - 1

\* part_002 lines 536-542 (USE_THREADS = 1): idx & ~lowMask is idx without the
\* bits of lowMask = NUM_THREADS - 1.
tt_index(key, thread_id) ==
    LET index == BitAnd(key, TT_MASK)
        lowMask == NUM_THREADS - 1
    IN  BitOr(index - BitAnd(index, lowMask), thread_id)

MaxKey == 7

\* The keys: the small ones and some with bits above TT_BITS.
PartKeys == 0..MaxKey \cup {2 ^ TT_BITS + k : k \in 0..1}

Workers == 0..(NUM_THREADS - 1)

InitPart ==
    /\ taccess = [t \in Workers |-> -1]
    /\ IdleBB /\ IdlePos /\ IdleSearch /\ IdleHard /\ IdleRules /\ IdleLoad /\ IdleTT
    /\ IdleAge /\ IdleCancel /\ IdlePar /\ IdleThreat /\ IdleUse /\ IdleEval /\ IdleOrder /\ IdleKey /\ IdleGame

\* Worker t probes or stores the position of key key.
Touch(t, key) ==
    /\ taccess' = [taccess EXCEPT ![t] = tt_index(key, t)]
    /\ UNCHANGED <<bbvars, posvars, searchvars, hardvars, rulevars, loadvars, ttvars,
                   agevars, cancelvars, parvars, threatvars, usevars, evalvars, ordervars, keyvars, gamevars>>

NextPart == \E t \in Workers, key \in PartKeys : Touch(t, key)

SpecPart == InitPart /\ [][NextPart]_vars

\* C22: the index sets of different workers are disjoint: no two worker
\* threads ever read or write the same slot of the table.
C22_PartitionsDisjoint ==
    \A t1, t2 \in Workers :
        (t1 # t2 /\ taccess[t1] # -1 /\ taccess[t2] # -1) => taccess[t1] # taccess[t2]

(***************************************************************************)
(* SpecPar: one call of getBotMoveHard of the root-parallel variant        *)
(* (part_002) after the opening book: the driver, root_search and its      *)
(* worker threads, one step per shared-memory access, and ParTick, the     *)
(* moment from which time_up() returns 1.  A worker's subtree is a number  *)
(* of nodes, each entered through the check of line 606, and a score.  A   *)
(* worker's unsynchronised read of timeExpired after another thread has    *)
(* written it returns the old or the new value.                            *)
(***************************************************************************)

INF_SCORE == 2000000000

MaxParDepth == 2

MaxWorkers == 2

MaxNodes == 2

ParScores == {-100, 0, 100}

\* The playable columns of the root, in moveOrder order.
ParRoots ==
    {SelectSeq(ORDER, LAMBDA c : c \in S) :
        S \in {T \in SUBSET {2, 3, 6} : T # {} /\ Cardinality(T) <= MaxWorkers}}

parother == <<bbvars, posvars, searchvars, hardvars, rulevars, loadvars, ttvars,
              agevars, cancelvars, partvars, threatvars, usevars, evalvars, ordervars, keyvars, gamevars>>

ClampScore(x) == IF x < -INF_SCORE THEN -INF_SCORE ELSE IF x > INF_SCORE THEN INF_SCORE ELSE x

InitPar ==
    /\ ppc = "top" /\ pdepth = 1 /\ phave = 0 /\ plast = 0
    /\ pbest = 3 /\ pscore = -INF_SCORE
    /\ palpha = 0 /\ pbeta = 0 /\ pwindow = 0 /\ plocal = <<3, 0>>
    /\ pcols \in ParRoots
    /\ pn = 0 /\ tup = FALSE /\ timeExpired = 0
    /\ tasks = <<>> /\ wpc = <<>> /\ wleft = <<>>
    /\ gint = {} /\ gprev = <<3, -INF_SCORE>>
    /\ IdleBB /\ IdlePos /\ IdleSearch /\ IdleHard /\ IdleRules /\ IdleLoad /\ IdleTT
    /\ IdleAge /\ IdleCancel /\ IdlePart /\ IdleThreat /\ IdleUse /\ IdleEval /\ IdleOrder /\ IdleKey /\ IdleGame

\* The clock reaches TIME_LIMIT_SEC (lines 415-418).
ParTick ==
    /\ ppc # "done"
    /\ ~tup
    /\ tup' = TRUE
    /\ UNCHANGED <<ppc, pdepth, phave, plast, pbest, pscore, palpha, pbeta, pwindow, plocal,
                   pcols, pn, timeExpired, tasks, wpc, wleft, gint, gprev, parother>>

\* Lines 850-854: root_search begins.
BeginRootSearch ==
    /\ ppc' = "spawn"
    /\ pn' = 0 /\ tasks' = <<>> /\ wpc' = <<>> /\ wleft' = <<>>
    /\ gint' = {} /\ gprev' = <<pbest, pscore>>

\* Lines 985-999 and 1021-1024: the head of the depth loop.
DepthTop ==
    /\ ppc = "top"
    /\ IF pdepth > MaxParDepth \/ timeExpired = 1 \/ tup
       THEN /\ ppc' = "done"
            /\ UNCHANGED <<palpha, pbeta, pwindow, pn, tasks, wpc, wleft, gint, gprev>>
       ELSE IF phave = 1
       THEN /\ palpha' = ClampScore(plast - 64)
            /\ pbeta' = ClampScore(plast + 64)
            /\ pwindow' = 64
            /\ ppc' = "while"
            /\ UNCHANGED <<pn, tasks, wpc, wleft, gint, gprev>>
       ELSE /\ palpha' = -INF_SCORE
            /\ pbeta' = INF_SCORE
            /\ UNCHANGED pwindow
            /\ BeginRootSearch
    /\ UNCHANGED <<pdepth, phave, plast, pbest, pscore, plocal, pcols, tup, timeExpired,
                   parother>>

\* Line 1000: the condition of the aspiration loop.
AspLoop ==
    /\ ppc = "while"
    /\ IF timeExpired = 0 /\ ~tup
       THEN BeginRootSearch
       ELSE ppc' = "post" /\ UNCHANGED <<pn, tasks, wpc, wleft, gint, gprev>>
    /\ UNCHANGED <<pdepth, phave, plast, pbest, pscore, palpha, pbeta, pwindow, plocal,
                   pcols, tup, timeExpired, parother>>

\* Lines 856-871: the next task is prepared and its thread created.
Spawn ==
    /\ ppc = "spawn"
    /\ IF pn < Len(pcols) /\ pn < NUM_THREADS
       THEN /\ tasks' = Append(tasks, [col |-> pcols[pn + 1], score |-> -INF_SCORE,
                                        valid |-> 0])
            /\ wpc' = Append(wpc, "run")
            /\ \E n \in 1..MaxNodes : wleft' = Append(wleft, n)
            /\ pn' = pn + 1
            /\ UNCHANGED ppc
       ELSE /\ ppc' = "join"
            /\ UNCHANGED <<tasks, wpc, wleft, pn>>
    /\ UNCHANGED <<pdepth, phave, plast, pbest, pscore, palpha, pbeta, pwindow, plocal,
                   pcols, tup, timeExpired, gint, gprev, parother>>

\* What worker i reads in timeExpired.
Seen(i) == IF timeExpired = 1 /\ i \notin gint THEN {0, 1} ELSE {timeExpired}

\* Lines 604-609: worker i enters a node of its subtree.
WorkerNode(i) ==
    /\ i \in 1..Len(wpc)
    /\ wpc[i] = "run"
    /\ \E seen \in Seen(i) :
          IF seen = 1 \/ tup
          THEN /\ timeExpired' = 1
               /\ gint' = gint \cup {i}
               /\ wpc' = [wpc EXCEPT ![i] = "check"]
               /\ UNCHANGED wleft
          ELSE /\ wleft' = [wleft EXCEPT ![i] = @ - 1]
               /\ wpc' = [wpc EXCEPT ![i] = IF wleft[i] = 1 THEN "check" ELSE "run"]
               /\ UNCHANGED <<timeExpired, gint>>
    /\ UNCHANGED <<ppc, pdepth, phave, plast, pbest, pscore, palpha, pbeta, pwindow, plocal,
                   pcols, pn, tup, tasks, gprev, parother>>

\* Lines 828-835: negamax has returned to thread_search.
WorkerCheck(i) ==
    /\ i \in 1..Len(wpc)
    /\ wpc[i] = "check"
    /\ \E seen \in Seen(i) :
          IF seen = 1
          THEN tasks' = [tasks EXCEPT ![i].valid = 0]
          ELSE \E v \in ParScores : tasks' = [tasks EXCEPT ![i].score = v, ![i].valid = 1]
    /\ wpc' = [wpc EXCEPT ![i] = "exit"]
    /\ UNCHANGED <<ppc, pdepth, phave, plast, pbest, pscore, palpha, pbeta, pwindow, plocal,
                   pcols, pn, tup, timeExpired, wleft, gint, gprev, parother>>

\* Lines 881-889: the best of the valid tasks from index i on.
RECURSIVE BestTask(_, _, _)
BestTask(tk, i, best) ==
    IF i > Len(tk) THEN best
    ELSE IF tk[i].valid = 1 /\ tk[i].score > best[2]
    THEN BestTask(tk, i + 1, <<tk[i].col, tk[i].score>>)
    ELSE BestTask(tk, i + 1, best)

\* root_search without the test of timeExpired after the joins.
RootResult_trusts_valid(tk, te) ==
    LET b == BestTask(tk, 1, <<-1, -INF_SCORE>>)
    IN  IF b[1] = -1 THEN <<3, -INF_SCORE>> ELSE b

\* Lines 878-902: <<*outBestMove, *outBestScore>> after the joins.
RootResult(tk, te) ==
    LET b == BestTask(tk, 1, <<-1, -INF_SCORE>>)
    IN  IF te = 1 THEN <<3, -INF_SCORE>>
        ELSE IF b[1] = -1 THEN <<3, -INF_SCORE>> ELSE b

\* Lines 873-902: every thread is joined and root_search returns, into
\* bestMove and bestScore at the first depth (line 1026), into the locals of
\* the aspiration loop otherwise (lines 1002-1003).
JoinAll ==
    /\ ppc = "join"
    /\ \A i \in 1..pn : wpc[i] = "exit"
    /\ \E res \in {RootResult(tasks, timeExpired)} :
          IF phave = 0
          THEN /\ pbest' = res[1] /\ pscore' = res[2]
               /\ ppc' = "post"
               /\ UNCHANGED plocal
          ELSE /\ plocal' = res
               /\ ppc' = "aspcheck"
               /\ UNCHANGED <<pbest, pscore>>
    /\ UNCHANGED <<pdepth, phave, plast, palpha, pbeta, pwindow, pcols, pn, tup,
                   timeExpired, tasks, wpc, wleft, gint, gprev, parother>>

\* Lines 1005-1022: the result of root_search against the window.
AspCheck ==
    /\ ppc = "aspcheck"
    /\ IF timeExpired = 1 \/ tup
       THEN /\ ppc' = "post"
            /\ UNCHANGED <<palpha, pbeta, pwindow, pbest, pscore>>
       ELSE IF plocal[2] <= palpha
       THEN /\ palpha' = ClampScore(palpha - pwindow)
            /\ pwindow' = pwindow * 2
            /\ ppc' = "while"
            /\ UNCHANGED <<pbeta, pbest, pscore>>
       ELSE IF plocal[2] >= pbeta
       THEN /\ pbeta' = ClampScore(pbeta + pwindow)
            /\ pwindow' = pwindow * 2
            /\ ppc' = "while"
            /\ UNCHANGED <<palpha, pbest, pscore>>
       ELSE /\ pbest' = plocal[1] /\ pscore' = plocal[2]
            /\ ppc' = "post"
            /\ UNCHANGED <<palpha, pbeta, pwindow>>
    /\ UNCHANGED <<pdepth, phave, plast, plocal, pcols, pn, tup, timeExpired, tasks, wpc,
                   wleft, gint, gprev, parother>>

\* Lines 1029-1038: the tail of a depth.
PostDepth ==
    /\ ppc = "post"
    /\ IF timeExpired = 1 \/ tup
       THEN ppc' = "done" /\ UNCHANGED <<plast, phave, pdepth>>
       ELSE /\ plast' = pscore
            /\ phave' = 1
            /\ IF pscore >= WIN_SCORE - 1000
               THEN ppc' = "done" /\ UNCHANGED pdepth
               ELSE ppc' = "top" /\ pdepth' = pdepth + 1
    /\ UNCHANGED <<pbest, pscore, palpha, pbeta, pwindow, plocal, pcols, pn, tup,
                   timeExpired, tasks, wpc, wleft, gint, gprev, parother>>

NextPar ==
    \/ ParTick \/ DepthTop \/ AspLoop \/ Spawn \/ JoinAll \/ AspCheck \/ PostDepth
    \/ \E i \in 1..MaxWorkers : WorkerNode(i)
    \/ \E i \in 1..MaxWorkers : WorkerCheck(i)

SpecPar == InitPar /\ [][NextPar]_vars

ProvenWin(score) == score >= WIN_SCORE - ROWS * COLS

\* C24: as soon as a completed depth's best root score is a proven win, no
\* deeper iteration is started and the move of that depth is returned.
C24_StopsAtProvenWin ==
    (last_completed_depth >= 1 /\ ProvenWin(last_score)) =>
        /\ pc \notin {"move", "search", "enddepth"}
        /\ pc = "done" => result = completed[last_completed_depth]

(***************************************************************************)
(* ---- part_005: explicit bitboards of the two players ----               *)
(* Position {bb[2], zkey, player_to_move}: bb[1] and bb[2] are the stones   *)
(* of player 0 and player 1 (bit c * 7 + row), zkey the incremental Zobrist *)
(* key.  zobrist[c][r][owner] are independent 64-bit random words: the key  *)
(* is kept as the set of the words XORed into it, <<c, r, owner>> for       *)
(* zobrist[c][r][owner] and ZobristSide for zobrist_side, so that XOR is    *)
(* the symmetric difference.                                                *)

ZobristSide == <<-1, -1, -1>>

mask_all(p) == p.bb[1] \cup p.bb[2]

opponent_bb_of(p) == p.bb[(1 - p.player_to_move) + 1]

can_play_col(p, col) == top_mask(col) \notin mask_all(p)

empties_on_board(p) == 42 - Cardinality(mask_all(p))

\* The side changes and the key stays.
flip_player_keeps_key(p) == [p EXCEPT !.player_to_move = 1 - @]

flip_player(p) ==
    [p EXCEPT !.player_to_move = 1 - @, !.zkey = Xor(@, {ZobristSide})]

\* make_move: the stone of the player to move on the lowest empty cell of
\* col, the key updated when the row is below the sentinel, then flip_player.
drop_stone(p, col) ==
    LET occ      == mask_all(p)
        move_bit == AddBit(occ, bottom_mask(col)) \ occ
        index    == CHOOSE i \in move_bit : \A j \in move_bit : i <= j
        row      == index - col * 7
        player   == p.player_to_move
    IN  flip_player([p EXCEPT !.bb[player + 1] = @ \cup move_bit,
                              !.zkey = IF row < 6 THEN Xor(@, {<<col, row, player>>}) ELSE @])

move_list(p) == SelectSeq(ORDER, LAMBDA c : can_play_col(p, c))

AllCols == <<0, 1, 2, 3, 4, 5, 6>>

list_immediate_wins(p) ==
    SelectSeq(AllCols, LAMBDA c :
        can_play_col(p, c) /\ has_won_bb(opponent_bb_of(drop_stone(p, c))) = 1)

(* ---- the table of the threat search ---- *)

VcfInitEntry == [key |-> {}, depth |-> 0, result |-> 0, gen |-> 0]

VcfGet(table, key) == IF key \in DOMAIN table THEN table[key] ELSE VcfInitEntry

\* st: [vcf, gen, reads, ex, flag]: vcf_table, vcf_generation, the number of
\* clock reads made so far, the read at which the time limit is first seen
\* passed, and *timeout_flag.
vcf_probe(st, p, depth_rem) ==
    LET e == VcfGet(st.vcf, p.zkey)
    IN  IF e.gen = st.gen /\ e.key = p.zkey /\ e.depth >= depth_rem THEN e.result ELSE 0

vcf_store(st, p, depth_rem, res) ==
    LET e == VcfGet(st.vcf, p.zkey)
    IN  IF e.gen # st.gen \/ depth_rem >= e.depth
        THEN [st EXCEPT !.vcf = TTPut(@, p.zkey,
                 [key |-> p.zkey, depth |-> depth_rem, result |-> res, gen |-> st.gen])]
        ELSE st

(* ---- threat_space_search ---- *)

RECURSIVE threat_space_search(_, _, _)
RECURSIVE VctReplies(_, _, _, _, _)
RECURSIVE BlockReplies(_, _, _, _, _)
RECURSIVE ChainLoop(_, _, _, _, _)

\* Lines 438-447: the replies of the opponent to a move that makes no threat.
\* out: "timeout", "escape", or "none" when no reply escapes.
VctReplies(child, depth_rem, opp_moves, j, st) ==
    IF j > Len(opp_moves) THEN [out |-> "none", st |-> st]
    ELSE LET reply == drop_stone(child, opp_moves[j])
         IN  IF has_won_bb(opponent_bb_of(reply)) = 1 THEN [out |-> "escape", st |-> st]
             ELSE LET res == threat_space_search(reply, depth_rem - 2, st)
                  IN  IF res.st.flag = 1 THEN [out |-> "timeout", st |-> res.st]
                      ELSE IF res.r # 1 THEN [out |-> "escape", st |-> res.st]
                      ELSE VctReplies(child, depth_rem, opp_moves, j + 1, res.st)

\* Lines 481-500: the blocks of the opponent against a single threat.
BlockReplies(child, depth_rem, opponent_blocks, b, st) ==
    IF b > Len(opponent_blocks) THEN [out |-> "none", st |-> st]
    ELSE LET reply == drop_stone(child, opponent_blocks[b])
         IN  IF has_won_bb(opponent_bb_of(reply)) = 1 THEN [out |-> "escape", st |-> st]
             ELSE IF Len(list_immediate_wins(flip_player(reply))) >= 2
                  THEN [out |-> "escape", st |-> st]
             ELSE LET res == threat_space_search(reply, depth_rem - 2, st)
                  IN  IF res.st.flag = 1 THEN [out |-> "timeout", st |-> res.st]
                      ELSE IF res.r # 1 THEN [out |-> "escape", st |-> res.st]
                      ELSE BlockReplies(child, depth_rem, opponent_blocks, b + 1, res.st)

\* Lines 424-506: the loop over the moves; ret = TRUE when the loop returns
\* from the function with r.
ChainLoop(p, depth_rem, mvs, i, st) ==
    IF i > Len(mvs) THEN [ret |-> FALSE, r |-> 0, st |-> st]
    ELSE LET child    == drop_stone(p, mvs[i])
             win_cols == list_immediate_wins(flip_player(child))
             proven   == [ret |-> TRUE, r |-> 1, st |-> vcf_store(st, p, depth_rem, 1)]
         IN  IF Len(win_cols) = 0
             THEN IF depth_rem >= 4
                  THEN LET v == VctReplies(child, depth_rem, move_list(child), 1, st)
                       IN  IF v.out = "timeout" THEN [ret |-> TRUE, r |-> 0, st |-> v.st]
                           ELSE IF v.out = "none"
                                THEN [ret |-> TRUE, r |-> 1, st |-> vcf_store(v.st, p, depth_rem, 1)]
                           ELSE ChainLoop(p, depth_rem, mvs, i + 1, v.st)
                  ELSE ChainLoop(p, depth_rem, mvs, i + 1, st)
             ELSE IF \E k \in 1..Len(win_cols) : ~can_play_col(child, win_cols[k]) THEN proven
             ELSE IF Len(win_cols) >= 2 THEN proven
             ELSE LET v == BlockReplies(child, depth_rem, win_cols, 1, st)
                  IN  IF v.out = "timeout" THEN [ret |-> TRUE, r |-> 0, st |-> v.st]
                      ELSE IF v.out = "none"
                           THEN [ret |-> TRUE, r |-> 1, st |-> vcf_store(v.st, p, depth_rem, 1)]
                      ELSE ChainLoop(p, depth_rem, mvs, i + 1, v.st)

\* Lines 396-412: the moves tried, the winning columns of the opponent when
\* there are any.
ThreatMoves(p) ==
    LET opp_win_cols == list_immediate_wins(flip_player(p))
    IN  IF Len(opp_win_cols) > 0
        THEN SelectSeq(opp_win_cols, LAMBDA c : can_play_col(p, c))
        ELSE move_list(p)

\* Lines 508-521: the search of the opponent's forced win after no win was
\* proven, st being the state the loop over the moves left.
NullMove(p, depth_rem, st) ==
    IF depth_rem > 1
    THEN LET res == threat_space_search(flip_player(p), depth_rem - 1, st)
         IN  IF res.st.flag = 1 THEN [r |-> 0, st |-> res.st]
             ELSE IF res.r = 1 THEN [r |-> -1, st |-> vcf_store(res.st, p, depth_rem, -1)]
             ELSE [r |-> 0, st |-> vcf_store(res.st, p, depth_rem, 0)]
    ELSE [r |-> 0, st |-> vcf_store(st, p, depth_rem, 0)]

threat_space_search(p, depth_rem, st) ==
    IF st.flag = 1 THEN [r |-> 0, st |-> st]
    ELSE IF depth_rem <= 0 THEN [r |-> 0, st |-> st]
    ELSE IF st.reads >= st.ex THEN [r |-> 0, st |-> [st EXCEPT !.flag = 1]]
    ELSE LET s1     == [st EXCEPT !.reads = @ + 1]
             cached == vcf_probe(s1, p, depth_rem)
             mvs  == ThreatMoves(p)
         IN  IF cached # 0 THEN [r |-> cached, st |-> s1]
             ELSE IF has_won_bb(opponent_bb_of(p)) = 1 THEN [r |-> -1, st |-> s1]
             ELSE IF move_list(p) = <<>> THEN [r |-> 0, st |-> s1]
             ELSE IF mvs = <<>> THEN [r |-> -1, st |-> vcf_store(s1, p, depth_rem, -1)]
             ELSE IF \E i \in 1..Len(mvs) :
                        has_won_bb(opponent_bb_of(drop_stone(p, mvs[i]))) = 1
                  THEN [r |-> 1, st |-> vcf_store(s1, p, depth_rem, 1)]
             ELSE LET ch == ChainLoop(p, depth_rem, mvs, 1, s1)
                  IN  IF ch.ret THEN [r |-> ch.r, st |-> ch.st]
                      ELSE NullMove(p, depth_rem, ch.st)

\* getBotMoveHard lines 876-899: the root Position, player 0 = bot.
root_position(b, who) ==
    LET mine   == StonesOf(b, who)
        theirs == UNION {StonesOf(b, ch) : ch \in Marks \ {who}}
        ptm    == IF Cardinality(mine) = Cardinality(theirs) THEN 0 ELSE 1
    IN  [bb |-> <<mine, theirs>>,
         zkey |-> {<<i \div 7, i % 7, 0>> : i \in mine} \cup {<<i \div 7, i % 7, 1>> : i \in theirs}
                  \cup (IF ptm = 1 THEN {ZobristSide} ELSE {}),
         player_to_move |-> ptm]

(***************************************************************************)
(* ---- SpecThreat: threat_space_search as a function ----                 *)
(* The calls of threat_space_search on the positions of the last plies of  *)
(* two games, with every depth_rem up to MaxThreatDepth, on an empty table *)
(* and on the table the previous call left, the time limit being seen      *)
(* passed at one of the first MaxReads clock reads or never.               *)

MaxThreatDepth == 4
MaxReads == 2
MaxThreatCalls == 2

\* "X" to move, columns 4 and 5 open with two empty cells each.
ChainBoard ==
    << <<"X", "O", "X", ".", ".", "X", "O">>,
       <<"X", "X", "O", ".", ".", "X", "X">>,
       <<"X", "O", "O", "O", "X", "O", "O">>,
       <<"O", "O", "X", "O", "X", "O", "O">>,
       <<"X", "X", "O", "X", "O", "O", "X">>,
       <<"X", "O", "O", "X", "X", "X", "O">> >>

\* "X" to move, columns 3 and 4 open with two empty cells each.
LadderBoard ==
    << <<"X", "X", ".", ".", "O", "O", "O">>,
       <<"X", "X", ".", ".", "O", "X", "X">>,
       <<"O", "O", "O", "X", "X", "X", "O">>,
       <<"O", "X", "X", "X", "O", "X", "O">>,
       <<"X", "X", "O", "O", "X", "O", "O">>,
       <<"O", "X", "X", "O", "O", "O", "X">> >>

ThreatRoots == {root_position(ChainBoard, "X"), root_position(LadderBoard, "X")}

Successors(S) ==
    UNION {{drop_stone(p, c) : c \in {x \in 0..(COLS - 1) : can_play_col(p, x)}} : p \in S}

ThreatNodes == ThreatRoots \cup Successors(ThreatRoots) \cup Successors(Successors(ThreatRoots))

threatrest == <<bbvars, posvars, searchvars, hardvars, rulevars, loadvars, ttvars,
                agevars, cancelvars, partvars, parvars, usevars, evalvars, ordervars, keyvars, gamevars>>

InitThreat ==
    /\ tsp \in ThreatNodes
    /\ tsd \in 1..MaxThreatDepth
    \* vcf_generation is 2 in the first call of getBotMoveHard (lines 191, 904).
    /\ \E e \in (1..MaxReads) \cup {NoExpiry} :
           tsst = [vcf |-> << >>, gen |-> 2, reads |-> 0, ex |-> e, flag |-> 0]
    /\ tsr = 0 /\ tspc = "call" /\ tsn = 0
    /\ IdleBB /\ IdlePos /\ IdleSearch /\ IdleHard /\ IdleRules /\ IdleLoad /\ IdleTT
    /\ IdleAge /\ IdleCancel /\ IdlePart /\ IdlePar /\ IdleUse /\ IdleEval /\ IdleOrder /\ IdleKey /\ IdleGame

ThreatCall ==
    /\ tspc = "call"
    /\ \E res \in {threat_space_search(tsp, tsd, tsst)} :
           /\ tsr' = res.r
           /\ tsst' = res.st
    /\ tspc' = "done"
    /\ tsn' = tsn + 1
    /\ UNCHANGED <<tsp, tsd, threatrest>>

\* The next call of the same search, with the same depth_rem as in the loop
\* of threat_space_root: the table and the clock go on.
ThreatAgain ==
    /\ tspc = "done" /\ tsn < MaxThreatCalls /\ tsst.flag = 0
    /\ tsp' \in ThreatNodes
    /\ tspc' = "call"
    /\ UNCHANGED <<tsd, tsst, tsr, tsn, threatrest>>

NextThreat == ThreatCall \/ ThreatAgain

SpecThreat == InitThreat /\ [][NextThreat]_vars

(* ---- the game itself ---- *)

PlayableCols(p) == {c \in 0..(COLS - 1) : can_play_col(p, c)}

RECURSIVE ForcedWin(_)
\* The side to move completes four before the opponent does, whatever the
\* opponent replies.
ForcedWin(p) ==
    /\ has_won_bb(opponent_bb_of(p)) = 0
    /\ \E c \in PlayableCols(p) :
           LET q == drop_stone(p, c)
           IN  \/ has_won_bb(opponent_bb_of(q)) = 1
               \/ /\ PlayableCols(q) # {}
                  /\ \A d \in PlayableCols(q) :
                         LET r == drop_stone(q, d)
                         IN  has_won_bb(opponent_bb_of(r)) = 0 /\ ForcedWin(r)

\* The opponent has won, or wins by force whatever the side to move plays.
ForcedLoss(p) ==
    \/ has_won_bb(opponent_bb_of(p)) = 1
    \/ /\ PlayableCols(p) # {}
       /\ \A c \in PlayableCols(p) : ForcedWin(drop_stone(p, c))

\* C25: a call of threat_space_search with depth_rem >= 1 and no timeout, on
\* a position in which the last mover has not won and the side to move has a
\* playable column that completes four, returns Win (1), also when the
\* opponent has winning columns of their own.
C25_ImmediateWinIsWin ==
    (/\ tspc = "done" /\ tsst.flag = 0 /\ tsd >= 1
     /\ has_won_bb(opponent_bb_of(tsp)) = 0
     /\ Len(list_immediate_wins(tsp)) > 0) => tsr = 1

\* C26: threat_space_search returns Win (1) only on positions in which the
\* side to move forces four-in-a-row before the opponent completes one,
\* against every legal reply.
C26_WinOnlyWhenForced ==
    (tspc = "done" /\ tsr = 1) => ForcedWin(tsp)

\* C27: threat_space_search returns Loss (-1) only on positions in which the
\* opponent wins by force whatever the side to move plays.
C27_LossOnlyWhenForced ==
    (tspc = "done" /\ tsr = -1) => ForcedLoss(tsp)

(***************************************************************************)
(* ---- SpecUse: getBotMoveHard of part_005 up to the choice of the move -- *)
(* One call: the opening book, the immediate win, the immediate block, the *)
(* threat search of the root when at most 12 cells are empty, and the      *)
(* iterative deepening.  threat_space_root runs one step per root move and *)
(* per reply; the iterative deepening is the loop of SpecHard on the other *)
(* Position type and is kept here by its outcome only: a playable column   *)
(* (the default move when none is).                                        *)

VCF_MAX_DEPTH == 24

MaxUseReads == 6

\* "X" to move, column 6 open with four empty cells.
QuietBoard ==
    << <<"O", "O", "X", "X", "O", ".", "X">>,
       <<"X", "O", "O", "O", "X", ".", "X">>,
       <<"O", "O", "X", "O", "X", ".", "O">>,
       <<"X", "X", "X", "O", "X", ".", "O">>,
       <<"O", "O", "O", "X", "O", "X", "O">>,
       <<"X", "X", "O", "X", "X", "O", "X">> >>

\* One empty cell, on top of column 4; "X" has 21 stones, "O" 20.
LastCellBoard ==
    << <<"O", "O", "X", ".", "O", "X", "X">>,
       <<"X", "X", "O", "X", "O", "O", "X">>,
       <<"O", "O", "X", "O", "O", "X", "O">>,
       <<"X", "O", "X", "X", "X", "O", "X">>,
       <<"O", "X", "X", "O", "O", "X", "O">>,
       <<"X", "O", "O", "X", "X", "X", "O">> >>

\* "X" to move, column 1 open with one empty cell and column 5 with three:
\* "X" in column 5 wins after either reply.
ProofBoard ==
    << <<".", "O", "X", "O", ".", "X", "O">>,
       <<"O", "X", "O", "X", ".", "X", "X">>,
       <<"O", "O", "X", "X", ".", "O", "O">>,
       <<"X", "X", "O", "O", "X", "O", "X">>,
       <<"O", "O", "O", "X", "X", "O", "O">>,
       <<"X", "X", "O", "X", "O", "X", "X">> >>

\* "X" to move, column 1 open with two empty cells: the replies are searched
\* with depth_rem 0.
ShallowBoard ==
    << <<".", "X", "O", "O", "X", "X", "X">>,
       <<".", "O", "X", "X", "X", "O", "O">>,
       <<"O", "X", "O", "O", "O", "X", "O">>,
       <<"O", "O", "X", "X", "X", "O", "X">>,
       <<"X", "O", "X", "O", "X", "O", "O">>,
       <<"O", "X", "X", "O", "O", "X", "X">> >>

\* Six stones, nobody threatens anything: more than 12 cells are empty.
OpenBoard ==
    StackBoard(<< <<"X">>, <<"O">>, <<"X">>, <<"O">>, <<"X">>, <<"O">>, <<>> >>)

\* "O" to move with one stone fewer than "X": "O" completes four in column 7
\* and "X" would complete four in column 1.
SecondBoard ==
    StackBoard(<< <<"X", "X", "X">>, <<>>, <<>>, <<"X">>, <<>>, <<>>, <<"O", "O", "O">> >>)

UseCalls ==
    {<<SecondBoard, "O">>, <<ChainBoard, "X">>, <<LadderBoard, "X">>, <<QuietBoard, "X">>, <<ProofBoard, "X">>,
     <<ShallowBoard, "X">>, <<LastCellBoard, "O">>,
     <<OpenBoard, "X">>, <<RaceBoard, "X">>, <<ThreatBoard, "O">>, <<EmptyBoard, "X">>}

userest == <<bbvars, posvars, searchvars, hardvars, rulevars, loadvars, ttvars,
             agevars, cancelvars, partvars, parvars, threatvars, evalvars, ordervars, keyvars, gamevars>>

InitUse ==
    /\ \E call \in UseCalls :
           /\ ub = call[1] /\ ubot = call[2]
           /\ upos = root_position(call[1], call[2])
    /\ \E e \in (1..MaxUseReads) \cup {NoExpiry} :
           ust = [vcf |-> << >>, gen |-> 2, reads |-> 0, ex |-> e, flag |-> 0]
    /\ upc = "book" /\ uret = 0 /\ uvia = ""
    /\ ucols = <<>> /\ ui = 0 /\ ureplies = <<>> /\ uj = 0 /\ ulog = <<>>
    /\ utss = -1 /\ uhow = ""
    /\ IdleBB /\ IdlePos /\ IdleSearch /\ IdleHard /\ IdleRules /\ IdleLoad /\ IdleTT
    /\ IdleAge /\ IdleCancel /\ IdlePart /\ IdlePar /\ IdleThreat /\ IdleEval /\ IdleOrder /\ IdleKey /\ IdleGame

rootvars == <<ust, ucols, ui, ureplies, uj, ulog, utss, uhow>>

\* The columns, from 0, where the side to move of p completes four.
WinsNow(p) ==
    {c \in PlayableCols(p) : has_won_bb(opponent_bb_of(drop_stone(p, c))) = 1}

\* Lines 909-913: the opening book.
UseBook ==
    /\ upc = "book"
    /\ \E ob_move \in {opening_book_move(ub, ubot)} :
           IF ob_move >= 1 /\ ob_move <= COLS /\ At(ub, 0, ob_move - 1) = "."
           THEN uret' = ob_move /\ uvia' = "book" /\ upc' = "done"
           ELSE upc' = "win" /\ UNCHANGED <<uret, uvia>>
    /\ UNCHANGED <<ub, ubot, upos, rootvars, userest>>

\* Lines 915-923: the first column where the side to move of pos wins.
UseWin ==
    /\ upc = "win"
    /\ IF WinsNow(upos) # {}
       THEN uret' = MinOf(WinsNow(upos)) + 1 /\ uvia' = "win" /\ upc' = "done"
       ELSE upc' = "block" /\ UNCHANGED <<uret, uvia>>
    /\ UNCHANGED <<ub, ubot, upos, rootvars, userest>>

\* Lines 925-937: the first column where the other side would win.
UseBlock ==
    /\ upc = "block"
    /\ IF WinsNow(flip_player(upos)) # {}
       THEN uret' = MinOf(WinsNow(flip_player(upos))) + 1 /\ uvia' = "block" /\ upc' = "done"
       ELSE upc' = "empties" /\ UNCHANGED <<uret, uvia>>
    /\ UNCHANGED <<ub, ubot, upos, rootvars, userest>>

tss_depth(p) ==
    IF empties_on_board(p) < VCF_MAX_DEPTH THEN empties_on_board(p) ELSE VCF_MAX_DEPTH

\* Lines 940-943 and 526-528: threat_space_root is entered when at most 12
\* cells are empty.
UseEmpties ==
    /\ upc = "empties"
    /\ IF empties_on_board(upos) <= 12
       THEN /\ upc' = "rootmove"
            /\ ucols' = move_list(upos) /\ ui' = 1
       ELSE /\ upc' = "deepen"
            /\ UNCHANGED <<ucols, ui>>
    /\ UNCHANGED <<ub, ubot, upos, uret, uvia, ust, ureplies, uj, ulog, utss, uhow, userest>>

\* Lines 529-542 and 555: one root move of threat_space_root, up to the loop
\* over the replies.
RootMove ==
    /\ upc = "rootmove"
    /\ IF ui > Len(ucols)
       THEN /\ utss' = 0 /\ uhow' = "none" /\ upc' = "use"
            /\ UNCHANGED <<ureplies, uj, ulog>>
       ELSE \E child \in {drop_stone(upos, ucols[ui])} :
               IF has_won_bb(opponent_bb_of(child)) = 1
               THEN /\ utss' = ucols[ui] + 1 /\ uhow' = "win" /\ upc' = "use"
                    /\ UNCHANGED <<ureplies, uj, ulog>>
               ELSE IF Len(list_immediate_wins(flip_player(child))) >= 2
               THEN /\ utss' = ucols[ui] + 1 /\ uhow' = "double" /\ upc' = "use"
                    /\ UNCHANGED <<ureplies, uj, ulog>>
               ELSE /\ ureplies' = move_list(child) /\ uj' = 1 /\ ulog' = <<>>
                    /\ upc' = "reply"
                    /\ UNCHANGED <<utss, uhow>>
    /\ UNCHANGED <<ub, ubot, upos, uret, uvia, ust, ucols, ui, userest>>

\* Line 549: the opponent escapes unless the search of the reply proved a win.
Escapes_unless_loss(res) == res.r = -1

Escapes(res) == res.r # 1

\* Lines 544-553: one reply of the opponent to moves[i].
RootReply ==
    /\ upc = "reply"
    /\ IF uj > Len(ureplies)
       THEN /\ utss' = ucols[ui] + 1 /\ uhow' = "replies" /\ upc' = "use"
            /\ UNCHANGED <<ust, ui, uj, ulog>>
       ELSE \E reply \in {drop_stone(drop_stone(upos, ucols[ui]), ureplies[uj])} :
               IF has_won_bb(opponent_bb_of(reply)) = 1
               THEN /\ ui' = ui + 1 /\ upc' = "rootmove"
                    /\ UNCHANGED <<ust, uj, ulog, utss, uhow>>
               ELSE \E res \in {threat_space_search(reply, tss_depth(upos) - 2, ust)} :
                       /\ ust' = res.st
                       /\ ulog' = Append(ulog, [r |-> res.r, flag |-> res.st.flag])
                       /\ IF res.st.flag = 1
                          THEN /\ utss' = 0 /\ uhow' = "timeout" /\ upc' = "use"
                               /\ UNCHANGED <<ui, uj>>
                          ELSE IF Escapes(res)
                          THEN /\ ui' = ui + 1 /\ upc' = "rootmove"
                               /\ UNCHANGED <<uj, utss, uhow>>
                          ELSE /\ uj' = uj + 1
                               /\ UNCHANGED <<ui, upc, utss, uhow>>
    /\ UNCHANGED <<ub, ubot, upos, uret, uvia, ucols, ureplies, userest>>

\* Lines 944-947: the column of the threat search is returned when there is
\* one and its top cell is empty.
UseTss ==
    /\ upc = "use"
    /\ IF utss >= 1 /\ At(ub, 0, utss - 1) = "."
       THEN uret' = utss /\ uvia' = "tss" /\ upc' = "done"
       ELSE upc' = "deepen" /\ UNCHANGED <<uret, uvia>>
    /\ UNCHANGED <<ub, ubot, upos, rootvars, userest>>

\* Lines 950-1061: the iterative deepening and the safety fallback.
UseDeepen ==
    /\ upc = "deepen"
    /\ uret' \in IF PlayableCols(upos) # {} THEN {c + 1 : c \in PlayableCols(upos)} ELSE {4}
    /\ uvia' = "negamax" /\ upc' = "done"
    /\ UNCHANGED <<ub, ubot, upos, rootvars, userest>>

NextUse ==
    UseBook \/ UseWin \/ UseBlock \/ UseEmpties \/ RootMove \/ RootReply \/ UseTss \/ UseDeepen

SpecUse == InitUse /\ [][NextUse]_vars

\* C28: getBotMoveHard returns the column of threat_space_root only when the
\* root search returned it as won and its top cell is empty: the move wins at
\* once, makes two threats, or every reply searched for it came back Win (1)
\* with no timeout.  A timeout and an exhausted depth always come back as
\* Unknown (0), and when the root search returns 0 the move is the one of the
\* iterative deepening.
C28_UnknownIsNoProof ==
    /\ \A k \in 1..Len(ulog) :
           (ulog[k].flag = 1 \/ tss_depth(upos) - 2 <= 0) => ulog[k].r = 0
    /\ utss >= 1 =>
          /\ uhow \in {"win", "double", "replies"}
          /\ ust.flag = 0
          /\ uhow = "replies" =>
                /\ Len(ulog) <= Len(ureplies)
                /\ \A k \in 1..Len(ulog) : ulog[k].r = 1 /\ ulog[k].flag = 0
    /\ (upc = "done" /\ uvia = "tss") =>
          /\ uret = utss /\ utss >= 1
          /\ At(ub, 0, uret - 1) = "."
    /\ (upc = "done" /\ utss = 0) => uvia = "negamax"

\* A timeout inside the search of a reply: the root search returns 0 and the
\* move comes from the iterative deepening.
C28_Witness ==
    /\ upc = "done" /\ uvia = "negamax" /\ utss = 0 /\ uhow = "timeout"
    /\ Len(ulog) >= 2
    /\ ulog[Len(ulog)] = [r |-> 0, flag |-> 1]

(***************************************************************************)
(* ---- the full board in negamax (bot_hard.c), under SpecSearch ----      *)

\* The node of SpecSearch is a full board on which the last mover has no four.
DrawnNode ==
    sdepth >= 0 /\ board_full_pos(pos) /\ has_won_bb(opponent_bb(pos)) = 0

\* The score negamax gives the full board BaseStacks with "X" to move.
BaseDrawScore ==
    negamax(build_position(StackBoard(BaseStacks), "X"), 0, 0,
            -WIN_SCORE, WIN_SCORE, FreshContext(0)).val

\* C29 as claimed: every full board on which the last mover has no four gets
\* one and the same score, whatever the arrangement of the stones.
C29_FullBoardFixedScore == DrawnNode => nm_val = BaseDrawScore

\* C29: negamax scores a full board on which the last mover has no four with
\* the output of evaluate_position_internal(p, 0), which depends on the
\* arrangement of the stones.
C29_FullBoardIsEvaluated ==
    DrawnNode => nm_val = evaluate_position_internal(pos, 0, w4)

\* Two full boards with different scores: this one, at depth_rem 1, is not
\* scored as BaseStacks is, nor 0.
C29_Witness ==
    /\ DrawnNode /\ sdepth = 1
    /\ nm_val # 0 /\ nm_val # BaseDrawScore

(***************************************************************************)
(* ---- SpecEval: evaluate_position_internal (bot_hard.c) as a function -- *)
(* The positions of games in progress and of finished games, reached by    *)
(* moves from a set of boards, evaluated with include_threats 0 (the leaf   *)
(* of negamax, the ordering of a child) and 1 (evaluate_position).  The     *)
(* ordering of line 478 evaluates the child of every move, also of a move   *)
(* that completes four.                                                     *)

MaxEvalPlies == 2

\* "X" holds columns 3, 4 and 5 of the bottom row with both ends open, and
\* three stones in column 4.
ForkBoard ==
    StackBoard(<< <<>>, <<>>, <<"X", "O">>, <<"X", "X", "X">>, <<"X", "O">>,
                  <<>>, <<"O", "O">> >>)

EvalBoards ==
    {EmptyBoard, ThreatBoard, RaceBoard, ForkBoard, LmpBoard, TrapBoard, DeepBoard,
     StackBoard(BaseStacks)}

evalrest == <<bbvars, posvars, searchvars, hardvars, rulevars, loadvars, ttvars,
              agevars, cancelvars, partvars, parvars, threatvars, usevars, ordervars, keyvars, gamevars>>

InitEval ==
    /\ \E b \in EvalBoards, m \in Marks : evp = build_position(b, m)
    /\ evw4 \in W4Choices
    /\ evt = -1 /\ evs = 0 /\ evn = 0
    /\ IdleBB /\ IdlePos /\ IdleSearch /\ IdleHard /\ IdleRules /\ IdleLoad /\ IdleTT
    /\ IdleAge /\ IdleCancel /\ IdlePart /\ IdlePar /\ IdleThreat /\ IdleUse /\ IdleOrder /\ IdleKey /\ IdleGame

\* make_move on a playable column (lines 463-464 of the ordering loop).
EvalMove(col) ==
    /\ evn < MaxEvalPlies
    /\ can_play(evp, col)
    /\ evp' = make_move(evp, col)
    /\ evn' = evn + 1
    /\ evt' = -1 /\ evs' = 0
    /\ UNCHANGED <<evw4, evalrest>>

Evaluate(t) ==
    /\ evt = -1
    /\ evt' = t
    /\ evs' = evaluate_position_internal(evp, t, evw4)
    /\ UNCHANGED <<evp, evw4, evn, evalrest>>

NextEval ==
    \/ \E col \in 0..(COLS - 1) : EvalMove(col)
    \/ \E t \in {0, 1} : Evaluate(t)

SpecEval == InitEval /\ [][NextEval]_vars

\* C30: the absolute value of evaluate_position_internal(p, t) is strictly
\* smaller than WIN_SCORE - 42 on every position, for t = 0 and t = 1.
C30_EvalBelowWinScores ==
    evt \in {0, 1} => (evs < WIN_SCORE - 42 /\ -evs < WIN_SCORE - 42)


(***************************************************************************)
(* Win-magnitude scores of negamax against the real game (lines 374-393).  *)
(***************************************************************************)

LegalCols(p) == {c \in 0..(COLS - 1) : can_play(p, c)}

RECURSIVE RealWin(_)
\* The side to move completes four before the opponent does, whatever the
\* opponent replies, in the game played to its end.
RealWin(p) ==
    /\ has_won_bb(opponent_bb(p)) = 0
    /\ \E c \in LegalCols(p) :
           LET q == make_move(p, c)
           IN  \/ has_won_bb(opponent_bb(q)) = 1
               \/ /\ LegalCols(q) # {}
                  /\ \A d \in LegalCols(q) :
                         LET r == make_move(q, d)
                         IN  has_won_bb(opponent_bb(r)) = 0 /\ RealWin(r)

\* The last mover has four, or wins by force whatever the side to move plays.
RealLoss(p) ==
    \/ has_won_bb(opponent_bb(p)) = 1
    \/ /\ LegalCols(p) # {}
       /\ \A c \in LegalCols(p) : RealWin(make_move(p, c))

\* C31: every score of win magnitude returned by negamax denotes a forced
\* result of the real game: at most -(WIN_SCORE - 64) only when the side to
\* move loses against every defence, at least WIN_SCORE - 64 only when it wins
\* by force; in particular a depth-0 leaf at which the opponent has one
\* winning column that the side to move can still block has no loss score
\* (stated for the builds in which the word after W[3] is 0).
C31_WinScoresAreForced ==
    (sdepth >= 0 /\ w4 = 0) =>
        /\ nm_val <= -(WIN_SCORE - 64) => RealLoss(pos)
        /\ nm_val >= WIN_SCORE - 64 => RealWin(pos)


\* C32: in the root Position of getBotMoveHard the side to move is the bot,
\* whether the bot holds as many stones as the opponent or one fewer: the
\* stones of the player to move are the cells marked with bot, and a column
\* returned by the immediate-win check completes four for the bot.
C32_RootMoverIsBot ==
    /\ upos.bb[upos.player_to_move + 1] = StonesOf(ub, ubot)
    /\ (upc = "done" /\ uvia = "win") => (uret - 1) \in BoardWins(ub, ubot)


(***************************************************************************)
(* Move ordering in negamax (bot_hard.c lines 417-499), observed on the    *)
(* node the driver is about to search: the child of the next root move,    *)
(* with the tables as the search has left them.                            *)
(***************************************************************************)

\* Lines 417-499: the moves of node p in the order the move loop takes them,
\* with their ordering scores.
node_order(p, depth_rem, max_depth, st) ==
    LET key == tt_key(p)
        e == TTGet(st.tt, key)
        plyr == max_depth - depth_rem
        ply == IF plyr >= MAX_PLY THEN MAX_PLY - 1 ELSE plyr
        mv1 == TTMoveFirst(gen_moves(p), e, key, st.gen)
        opp_cols == WinningCols(flip_view(p))
        sc1 == [i \in 1..Len(mv1) |-> move_score(p, mv1[i], e, key, ply, opp_cols, st)]
    IN  SelSort(mv1, sc1, 1)

\* Lines 374-421: negamax reaches the ordering of node p: no timeout, the
\* last mover has not won, the node is no leaf, the probe does not return and
\* a column is playable.
reaches_ordering(p, depth_rem, alph, bet, st) ==
    /\ st.to = 0
    /\ ~((st.nc + 1) % 128 = 0 /\ timed_out(st.nc + 1, st.ex))
    /\ has_won_bb(opponent_bb(p)) = 0
    /\ ~(depth_rem = 0 \/ board_full_pos(p))
    /\ ~TTProbe(TTGet(st.tt, tt_key(p)), tt_key(p), st.gen, depth_rem, alph, bet).ret
    /\ Len(gen_moves(p)) > 0

\* The node the driver searches next, when its moves get ordered.
NextNode == make_move(pos, moves[idx + 1])

NextNodeOrdered ==
    /\ pc = "search"
    /\ reaches_ordering(NextNode, depth - 1, -ClampHigh(beta), -ClampLow(alpha),
                        RootContext(IF expired THEN 0 ELSE NoExpiry))

NextOrder == node_order(NextNode, depth - 1, depth, RootContext(NoExpiry))

\* The entry in the slot of node p.
SlotOf(p) == TTGet(tt, tt_key(p))

\* The 1-based place of column c in the sequence q (0: not in q).
PlaceIn(q, c) == IF \E i \in 1..Len(q) : q[i] = c
                 THEN CHOOSE i \in 1..Len(q) : q[i] = c ELSE 0

\* C33: whenever the slot of a node holds a matching entry of the current
\* generation whose best move is a legal column of the node, that move is the
\* first move searched at the node.
C33_HintSearchedFirst ==
    NextNodeOrdered =>
        LET e == SlotOf(NextNode)
        IN  (/\ e.gen = tt_generation /\ e.key = tt_key(NextNode)
             /\ e.move >= 0 /\ e.move < COLS /\ can_play(NextNode, e.move))
            => NextOrder.moves[1] = e.move


(***************************************************************************)
(* SpecOrder: the ordering of the moves of one node of a search (lines     *)
(* 417-499) with the killer and history tables of that moment.  The tables *)
(* change only at cut-offs (lines 530-538): history_table[col] grows by    *)
(* depth_rem squared, at most 256, and is reset only by the next call of   *)
(* getBotMoveHard.  OrderCases are nodes of the search of the bot "X" on   *)
(* OpenGame with the tables the search holds when negamax enters them: the *)
(* first node of iteration 2, the first node with a winning move (iteration*)
(* 3) and a node of iteration 10.                                          *)
(***************************************************************************)

MaxCutoffs == 2

\* The board of the call: six stones in the three middle columns.
OpenGame ==
    StackBoard(<< <<>>, <<>>, <<"O", "X">>, <<"X", "X", "O">>, <<"O">>, <<>>, <<>> >>)

\* The first node of iteration 2, "O" to move at ply 1.
TieNode ==
    StackBoard(<< <<>>, <<>>, <<"O", "X">>, <<"X", "X", "O", "X">>, <<"O">>, <<>>, <<>> >>)

\* The node of iteration 3, "X" to move at ply 2.
EarlyNode ==
    StackBoard(<< <<>>, <<"O">>, <<"O", "X">>, <<"X", "X", "O">>, <<"O", "X">>, <<>>, <<>> >>)

\* The node of iteration 10, "O" to move at ply 9.
LateNode ==
    StackBoard(<< <<>>, <<>>, <<"O", "X", "X", "X", "O">>, <<"X", "X", "O", "O", "O">>,
                  <<"O", "O", "X", "X", "X">>, <<>>, <<>> >>)

OrderCases ==
    {[b |-> TieNode, m |-> "O", depth_rem |-> 1, max_depth |-> 2, k0 |-> -1, k1 |-> -1,
      hist |-> <<0, 0, 0, 0, 0, 0, 0>>],
     [b |-> EarlyNode, m |-> "X", depth_rem |-> 1, max_depth |-> 3, k0 |-> 1, k1 |-> 2,
      hist |-> <<0, 2, 8, 0, 4, 0, 0>>],
     [b |-> LateNode, m |-> "O", depth_rem |-> 1, max_depth |-> 10, k0 |-> 4, k1 |-> 3,
      hist |-> <<1748, 14534, 10092, 6221, 33630, 16581, 999>>]}

orderrest == <<bbvars, posvars, searchvars, hardvars, rulevars, loadvars, ttvars,
               agevars, cancelvars, partvars, parvars, threatvars, usevars, evalvars, keyvars, gamevars>>

InitOrder ==
    /\ \E cs \in OrderCases, w4v \in W4Choices :
           /\ onode = build_position(cs.b, cs.m)
           /\ odep = cs.depth_rem
           /\ omax = cs.max_depth
           /\ octx = [FreshContext(w4v) EXCEPT
                         !.km = [@ EXCEPT ![0][cs.max_depth - cs.depth_rem] = cs.k0,
                                          ![1][cs.max_depth - cs.depth_rem] = cs.k1],
                         !.hist = [c \in 0..(COLS - 1) |-> cs.hist[c + 1]]]
    /\ oord = <<>>
    /\ ocuts = 0
    /\ IdleBB /\ IdlePos /\ IdleSearch /\ IdleHard /\ IdleRules /\ IdleLoad /\ IdleTT
    /\ IdleAge /\ IdleCancel /\ IdlePart /\ IdlePar /\ IdleThreat /\ IdleUse /\ IdleEval /\ IdleKey /\ IdleGame

\* Lines 530-538: one more cut-off of the search, on column col at a node of
\* depth_rem d (the shallowest or the deepest nodes that have moves), before
\* negamax enters the node.
OrderCutoff(col, d) ==
    /\ oord = <<>>
    /\ ocuts < MaxCutoffs
    /\ octx' = Cutoff(octx, col, d, omax - d)
    /\ ocuts' = ocuts + 1
    /\ UNCHANGED <<onode, odep, omax, oord, orderrest>>

\* Lines 417-499: negamax orders the moves of the node.
OrderMoves ==
    /\ oord = <<>>
    /\ oord' = node_order(onode, odep, omax, octx)
    /\ UNCHANGED <<onode, odep, omax, octx, ocuts, orderrest>>

NextOrderStep ==
    \/ \E col \in 0..(COLS - 1), d \in {1, omax - 1} : OrderCutoff(col, d)
    \/ OrderMoves

SpecOrder == InitOrder /\ [][NextOrderStep]_vars

\* The column c completes four for the side to move of p.
WinsAt(p, c) == can_play(p, c) /\ has_won_bb(opponent_bb(make_move(p, c))) = 1

\* The column c is the best move of a matching entry in the slot of p.
IsHint(p, c, st) ==
    LET e == TTGet(st.tt, tt_key(p))
    IN  e.gen = st.gen /\ e.key = tt_key(p) /\ e.move = c

\* C34: at every node every legal move that completes four in a row for the
\* side to move is searched before every legal move that does not (the hint
\* of the transposition table excepted), whatever the killer and history
\* tables hold at that point of the search (stated for the builds in which
\* the word after W[3] is 0).
C34_WinsSearchedFirst ==
    (oord # <<>> /\ octx.w4 = 0) =>
        \A i \in 1..Len(oord.moves), j \in 1..Len(oord.moves) :
            (i < j /\ WinsAt(onode, oord.moves[j]) /\ ~IsHint(onode, oord.moves[i], octx))
                => WinsAt(onode, oord.moves[i])


\* C35: any two legal moves of a node with equal ordering scores are searched
\* in the center-first static order: the one that comes earlier in ORDER
\* (3, 2, 4, 1, 5, 0, 6) is searched first.
C35_TiesInStaticOrder ==
    oord # <<>> =>
        \A i \in 1..Len(oord.moves), j \in 1..Len(oord.moves) :
            (i < j /\ oord.scores[i] = oord.scores[j])
                => PlaceIn(ORDER, oord.moves[i]) < PlaceIn(ORDER, oord.moves[j])


(***************************************************************************)
(* SpecKey: the incremental key of part_005.  Two Positions are made from  *)
(* the root of one call of getBotMoveHard by make_move and flip_player in  *)
(* any order.  The words of the zobrist table are distinct tokens and XOR  *)
(* is the symmetric difference of token sets.                              *)
(***************************************************************************)

KeyCalls ==
    {<<LadderBoard, "X">>, <<ChainBoard, "X">>, <<ProofBoard, "X">>, <<LastCellBoard, "O">>}

keyrest == <<bbvars, posvars, searchvars, hardvars, rulevars, loadvars, ttvars,
             agevars, cancelvars, partvars, parvars, threatvars, usevars, evalvars,
             ordervars, gamevars>>

InitKey ==
    /\ \E call \in KeyCalls : kp = root_position(call[1], call[2])
    /\ kq = kp
    /\ kpf = -1 /\ kqf = -1
    /\ IdleBB /\ IdlePos /\ IdleSearch /\ IdleHard /\ IdleRules /\ IdleLoad /\ IdleTT
    /\ IdleAge /\ IdleCancel /\ IdlePart /\ IdlePar /\ IdleThreat /\ IdleUse /\ IdleEval
    /\ IdleOrder /\ IdleGame

\* make_move(&kp, col) on a playable column.
KeyMoveP(col) ==
    /\ can_play_col(kp, col)
    /\ kp' = drop_stone(kp, col)
    /\ kpf' = IF kpf = -1 THEN col ELSE kpf
    /\ UNCHANGED <<kq, kqf, keyrest>>

\* flip_player(&kp).
KeyFlipP ==
    /\ kp' = flip_player(kp)
    /\ UNCHANGED <<kq, kpf, kqf, keyrest>>

\* make_move(&kq, col) on a playable column.
KeyMoveQ(col) ==
    /\ can_play_col(kq, col)
    /\ kq' = drop_stone(kq, col)
    /\ kqf' = IF kqf = -1 THEN col ELSE kqf
    /\ UNCHANGED <<kp, kpf, keyrest>>

\* flip_player(&kq).
KeyFlipQ ==
    /\ kq' = flip_player(kq)
    /\ UNCHANGED <<kp, kpf, kqf, keyrest>>

NextKey ==
    \/ \E col \in 0..(COLS - 1) : KeyMoveP(col)
    \/ KeyFlipP
    \/ \E col \in 0..(COLS - 1) : KeyMoveQ(col)
    \/ KeyFlipQ

SpecKey == InitKey /\ [][NextKey]_vars

\* The XOR of zobrist[c][r][owner] over the stones of p, and of zobrist_side
\* when player 1 is to move.
KeyOfStones(p) ==
    {<<i \div 7, i % 7, 0>> : i \in p.bb[1]} \cup {<<i \div 7, i % 7, 1>> : i \in p.bb[2]}
        \cup (IF p.player_to_move = 1 THEN {ZobristSide} ELSE {})

\* C36: for every Position made from the root by make_move and flip_player,
\* zkey is the XOR of zobrist[c][r][owner] over all stones on the board, XORed
\* with zobrist_side iff player_to_move = 1; so two Positions with the same
\* stones and the same side to move carry the same key, whatever the order of
\* the moves that led to them.
C36_KeyIsXorOfStones ==
    /\ kp.zkey = KeyOfStones(kp)
    /\ kq.zkey = KeyOfStones(kq)
    /\ (kp.bb = kq.bb /\ kp.player_to_move = kq.player_to_move) => kp.zkey = kq.zkey

\* Two Positions with the same stones and side to move, each at least three
\* stones past the root, whose first moves went to different columns.
C36_Witness ==
    /\ kpf >= 0 /\ kqf >= 0 /\ kpf # kqf
    /\ kp.bb = kq.bb /\ kp.player_to_move = kq.player_to_move
    /\ kp.zkey # {} /\ ZobristSide \in kp.zkey

(***************************************************************************)
(* engine.c: the array board of the game loop.  A board is indexed as in   *)
(* the C code through At(b, r, c), row 0 on top; columns are 1-based in    *)
(* place_piece and 0-based in check_winner.                                *)
(***************************************************************************)

\* char players[2] = {'A', 'B'} (main.c l.38, part_006 l.38).
GamePlayers == <<"A", "B">>

\* board[r][c] = ch.
put_cell(b, r, c, ch) == [b EXCEPT ![r + 1][c + 1] = ch]

\* engine.c l.19-30: the stone goes to the lowest '.' of column col; -1 and
\* an untouched board when col is outside 1..7 or the column has no '.'.
place_piece(b, col, player) ==
    IF col - 1 < 0 \/ col - 1 >= COLS
    THEN [row |-> -1, board |-> b]
    ELSE LET dots == {r \in 0..(ROWS - 1) : At(b, r, col - 1) = "."}
         IN  IF dots = {}
             THEN [row |-> -1, board |-> b]
             ELSE LET low == CHOOSE r \in dots : \A q \in dots : q <= r
                  IN  [row |-> low, board |-> put_cell(b, low, col - 1, player)]

\* The while loop of count_dir: the cells holding player from (rr, cc) on.
RECURSIVE run_from(_, _, _, _, _, _)
run_from(b, rr, cc, dr, dc, player) ==
    IF rr >= 0 /\ rr < ROWS /\ cc >= 0 /\ cc < COLS /\ At(b, rr, cc) = player
    THEN 1 + run_from(b, rr + dr, cc + dc, dr, dc, player)
    ELSE 0

\* engine.c l.51-63.
count_dir(b, r, c, dr, dc) == run_from(b, r + dr, c + dc, dr, dc, At(b, r, c))

\* engine.c l.72-77.
directions == {<<0, 1>>, <<1, 0>>, <<1, 1>>, <<1, -1>>}

\* A check_winner that asks for five in a line.
check_winner_needs_five(b, row, col) ==
    IF row < 0 \/ col < 0 THEN FALSE
    ELSE IF At(b, row, col) = "." THEN FALSE
    ELSE \E d \in directions :
            1 + count_dir(b, row, col, d[1], d[2])
              + count_dir(b, row, col, -d[1], -d[2]) >= 5

\* engine.c l.66-87.
check_winner(b, row, col) ==
    IF row < 0 \/ col < 0 THEN FALSE
    ELSE IF At(b, row, col) = "." THEN FALSE
    ELSE \E d \in directions :
            1 + count_dir(b, row, col, d[1], d[2])
              + count_dir(b, row, col, -d[1], -d[2]) >= 4

\* engine.c l.90-97.
board_full(b) == \A c \in 0..(COLS - 1) : At(b, 0, c) # "."

\* engine.c l.33-47: the columns rand() can select (1 on a full board).
getBotMoveEasy(b) ==
    LET valid_cols == {c \in 1..COLS : At(b, 0, c - 1) = "."}
    IN  IF valid_cols = {} THEN {1} ELSE valid_cols

\* The number of stones on b.
StoneCount(b) ==
    Cardinality({rc \in (0..(ROWS - 1)) \X (0..(COLS - 1)) : At(b, rc[1], rc[2]) # "."})

(***************************************************************************)
(* bot_medium.c.  Every function works on the caller's array: a simulated  *)
(* stone is written with place_piece and taken back with                   *)
(* board[r][c - 1] = '.', so each operator returns the array it leaves     *)
(* behind next to its result.                                              *)
(***************************************************************************)

\* int order[] (l.41), int column_order[] (l.114).
column_order == <<4, 3, 5, 2, 6, 1, 7>>

\* bot_medium.c l.6-14.
count_dir_for(b, r, c, dr, dc, player) == run_from(b, r + dr, c + dc, dr, dc, player)

\* bot_medium.c l.16-25.
creates_threat(b, row, col, player) ==
    \E d \in directions :
        1 + count_dir_for(b, row, col, d[1], d[2], player)
          + count_dir_for(b, row, col, -d[1], -d[2], player) = 3

\* The loop of l.43-52, l.54-63, l.117-126, l.129-138 and l.152-162 from
\* column c on: place a stone of who, test it, take it back; ret is the
\* first column whose stone wins, -1 when the loop runs out.
RECURSIVE win_scan(_, _, _)
win_scan(b, who, c) ==
    IF c > COLS THEN [ret |-> -1, board |-> b]
    ELSE LET pl == place_piece(b, c, who)
         IN  IF pl.row # -1
             THEN IF check_winner(pl.board, pl.row, c - 1)
                  THEN [ret |-> c, board |-> put_cell(pl.board, pl.row, c - 1, ".")]
                  ELSE win_scan(put_cell(pl.board, pl.row, c - 1, "."), who, c + 1)
             ELSE win_scan(pl.board, who, c + 1)

\* bot_medium.c l.27-37.
opponent_can_win_next(b, opponent) ==
    LET scan == win_scan(b, opponent, 1)
    IN  [win |-> scan.ret # -1, board |-> scan.board]

\* A strategic loop that forgets the stone under which the opponent sits.
RECURSIVE strategic_scan_keeps_stone(_, _, _, _, _)
strategic_scan_keeps_stone(b, mine_ch, opponent, i, best_col) ==
    IF i >= 7 THEN [ret |-> -1, board |-> b, best |-> best_col]
    ELSE LET c == column_order[i + 1]
         IN  IF At(b, 0, c - 1) # "."
             THEN strategic_scan_keeps_stone(b, mine_ch, opponent, i + 1, best_col)
             ELSE LET pl == place_piece(b, c, mine_ch)
                  IN  IF pl.row = -1
                      THEN strategic_scan_keeps_stone(pl.board, mine_ch, opponent, i + 1, best_col)
                      ELSE IF pl.row + 1 < ROWS /\ At(pl.board, pl.row + 1, c - 1) = opponent
                      THEN strategic_scan_keeps_stone(pl.board, mine_ch, opponent, i + 1, best_col)
                      ELSE LET oc == opponent_can_win_next(pl.board, opponent)
                               undone == put_cell(oc.board, pl.row, c - 1, ".")
                           IN  IF oc.win
                               THEN strategic_scan_keeps_stone(undone, mine_ch, opponent, i + 1, best_col)
                               ELSE IF creates_threat(oc.board, pl.row, c - 1, mine_ch)
                               THEN [ret |-> c, board |-> undone, best |-> best_col]
                               ELSE strategic_scan_keeps_stone(undone, mine_ch, opponent, i + 1,
                                        IF best_col = -1 THEN c ELSE best_col)

\* bot_medium.c l.65-91 from order[i] on.
RECURSIVE strategic_scan(_, _, _, _, _)
strategic_scan(b, mine_ch, opponent, i, best_col) ==
    IF i >= 7 THEN [ret |-> -1, board |-> b, best |-> best_col]
    ELSE LET c == column_order[i + 1]
         IN  IF At(b, 0, c - 1) # "."
             THEN strategic_scan(b, mine_ch, opponent, i + 1, best_col)
             ELSE LET pl == place_piece(b, c, mine_ch)
                  IN  IF pl.row = -1
                      THEN strategic_scan(pl.board, mine_ch, opponent, i + 1, best_col)
                      ELSE IF pl.row + 1 < ROWS /\ At(pl.board, pl.row + 1, c - 1) = opponent
                      THEN strategic_scan(put_cell(pl.board, pl.row, c - 1, "."),
                                          mine_ch, opponent, i + 1, best_col)
                      ELSE LET oc == opponent_can_win_next(pl.board, opponent)
                               undone == put_cell(oc.board, pl.row, c - 1, ".")
                           IN  IF oc.win
                               THEN strategic_scan(undone, mine_ch, opponent, i + 1, best_col)
                               ELSE IF creates_threat(oc.board, pl.row, c - 1, mine_ch)
                               THEN [ret |-> c, board |-> undone, best |-> best_col]
                               ELSE strategic_scan(undone, mine_ch, opponent, i + 1,
                                        IF best_col = -1 THEN c ELSE best_col)

\* bot_medium.c l.39-102: rets are the columns the call can return (more
\* than one only where rand() selects), board is the array it leaves, via
\* names the return statement.
getBotMoveMedium(b, mine_ch, opponent) ==
    LET mine == win_scan(b, mine_ch, 1)
    IN  IF mine.ret # -1
        THEN [rets |-> {mine.ret}, board |-> mine.board, via |-> "win"]
        ELSE LET theirs == win_scan(mine.board, opponent, 1)
             IN  IF theirs.ret # -1
                 THEN [rets |-> {theirs.ret}, board |-> theirs.board, via |-> "block"]
                 ELSE LET strat == strategic_scan(theirs.board, mine_ch, opponent, 0, -1)
                          valid == {c \in 1..COLS : At(strat.board, 0, c - 1) = "."}
                      IN  IF strat.ret # -1
                          THEN [rets |-> {strat.ret}, board |-> strat.board, via |-> "threat"]
                          ELSE IF strat.best # -1
                          THEN [rets |-> {strat.best}, board |-> strat.board, via |-> "best"]
                          ELSE IF valid = {}
                          THEN [rets |-> {1}, board |-> strat.board, via |-> "none"]
                          ELSE [rets |-> valid, board |-> strat.board, via |-> "random"]

\* bot_medium.c l.141-168 from column_order[i] on.
RECURSIVE safe_scan(_, _, _, _)
safe_scan(b, mine_ch, opponent, i) ==
    IF i >= 7 THEN [ret |-> -1, board |-> b]
    ELSE LET c == column_order[i + 1]
         IN  IF At(b, 0, c - 1) # "."
             THEN safe_scan(b, mine_ch, opponent, i + 1)
             ELSE LET pl == place_piece(b, c, mine_ch)
                  IN  IF pl.row = -1
                      THEN safe_scan(pl.board, mine_ch, opponent, i + 1)
                      ELSE LET danger == win_scan(pl.board, opponent, 1)
                               undone == put_cell(danger.board, pl.row, c - 1, ".")
                           IN  IF danger.ret = -1
                               THEN [ret |-> c, board |-> undone]
                               ELSE safe_scan(undone, mine_ch, opponent, i + 1)

\* bot_medium.c l.110-179, the second getBotMoveMedium of the file.
getBotMoveMedium2(b, mine_ch, opponent) ==
    LET mine == win_scan(b, mine_ch, 1)
    IN  IF mine.ret # -1
        THEN [rets |-> {mine.ret}, board |-> mine.board, via |-> "win"]
        ELSE LET theirs == win_scan(mine.board, opponent, 1)
             IN  IF theirs.ret # -1
                 THEN [rets |-> {theirs.ret}, board |-> theirs.board, via |-> "block"]
                 ELSE LET safe == safe_scan(theirs.board, mine_ch, opponent, 0)
                          open == {i \in 1..7 : At(safe.board, 0, column_order[i] - 1) = "."}
                      IN  IF safe.ret # -1
                          THEN [rets |-> {safe.ret}, board |-> safe.board, via |-> "safe"]
                          ELSE IF open # {}
                          THEN [rets |-> {column_order[CHOOSE i \in open : \A j \in open : i <= j]},
                                board |-> safe.board, via |-> "centre"]
                          ELSE [rets |-> {1}, board |-> safe.board, via |-> "none"]

\* The getBotMoveMedium the program was linked with.
medium_move(ver, b, mine_ch, opponent) ==
    IF ver = 1 THEN getBotMoveMedium(b, mine_ch, opponent)
    ELSE getBotMoveMedium2(b, mine_ch, opponent)

(***************************************************************************)
(* The game loop of main(): main.c l.97-137 (the person is players[0] and  *)
(* starts, the bot is players[1], easy or medium) and part_006 l.112-154   *)
(* (bot_index chosen at the prompt, the bot's side starts, easy, medium or *)
(* hard).  One pass of the while loop is two steps: the call that yields   *)
(* col, then place_piece and the tests that follow it.  A game is played   *)
(* either freely for MaxFreeStones stones or along a typed script.         *)
(***************************************************************************)

\* Stones a game without script may hold when a move is asked for.
MaxFreeStones == 3

\* Typed columns of a whole game that ends with a full board and no four.
DrawGame ==
    <<6, 4, 3, 4, 2, 6, 4, 2, 1, 2, 5, 2, 3, 6, 1, 6, 7, 7, 3, 1, 7,
      1, 5, 3, 4, 1, 4, 5, 3, 4, 3, 7, 1, 5, 2, 2, 6, 5, 5, 6, 7, 7>>

\* Typed columns of a whole game whose 42nd stone completes the first four.
LastStoneGame ==
    <<6, 7, 2, 4, 7, 2, 5, 5, 6, 2, 1, 4, 2, 6, 3, 1, 1, 7, 2, 1, 5,
      6, 3, 1, 5, 6, 1, 5, 3, 5, 6, 2, 7, 3, 7, 3, 3, 4, 4, 7, 4, 4>>

\* Column 1 is filled and typed once more, 0 and 9 are typed, then A
\* completes the bottom row.
FullColumnGame == <<1, 1, 1, 1, 1, 1, 1, 0, 2, 9, 2, 3, 3, 4>>

GameScripts == {DrawGame, LastStoneGame, FullColumnGame}

\* What main() has read before the loop: the mode, the difficulty, who
\* starts, the getBotMoveMedium linked in, and the columns typed later.
GameSetups ==
    LET modes ==
            [loop : {"main"}, bot : {FALSE}, idx : {1}, diff : {"easy"}, ver : {1}]
            \cup [loop : {"main"}, bot : {TRUE}, idx : {1}, diff : {"easy"}, ver : {1}]
            \cup [loop : {"main"}, bot : {TRUE}, idx : {1}, diff : {"medium"}, ver : 1..2]
            \cup [loop : {"part6"}, bot : {FALSE}, idx : {1}, diff : {"easy"}, ver : {1}]
            \cup [loop : {"part6"}, bot : {TRUE}, idx : 0..1, diff : {"easy", "hard"}, ver : {1}]
            \cup [loop : {"part6"}, bot : {TRUE}, idx : 0..1, diff : {"medium"}, ver : 1..2]
    IN  {<<m, <<>>>> : m \in modes}
        \cup {<<m, typed>> : m \in {x \in modes : ~x.bot \/ x.diff = "medium"},
                             typed \in GameScripts}

\* current at the start of a round: main.c l.100, part_006 l.115.
first_player(loop, enabled, index) ==
    IF loop = "main" THEN 0 ELSE IF enabled THEN index ELSE 0

\* The side whose moves the bot makes: current == 1 (main.c l.106),
\* current == bot_index (part_006 l.121).
bot_side == IF gloop = "main" THEN 1 ELSE gidx

\* io.c l.14-38 on the typed numbers: those outside 1..7 are refused and the
\* next one is read.
RECURSIVE getColumnIn(_)
getColumnIn(typed) ==
    IF typed = <<>> THEN [col |-> 0, rest |-> <<>>]
    ELSE IF Head(typed) < 1 \/ Head(typed) > 7 THEN getColumnIn(Tail(typed))
    ELSE [col |-> Head(typed), rest |-> Tail(typed)]

\* A loop body that looks for a full board before it looks for a winner.
loop_turn_draw_first(b, cur, col) ==
    LET pl == place_piece(b, col, GamePlayers[cur + 1])
    IN  IF pl.row = -1
        THEN [board |-> pl.board, current |-> cur, game_over |-> FALSE, said |-> "full"]
        ELSE IF board_full(pl.board)
        THEN [board |-> pl.board, current |-> cur, game_over |-> TRUE, said |-> "draw"]
        ELSE IF check_winner(pl.board, pl.row, col - 1)
        THEN [board |-> pl.board, current |-> cur, game_over |-> TRUE, said |-> "win"]
        ELSE [board |-> pl.board, current |-> 1 - cur, game_over |-> FALSE, said |-> ""]

\* main.c l.117-136, part_006 l.134-153.
loop_turn(b, cur, col) ==
    LET pl == place_piece(b, col, GamePlayers[cur + 1])
    IN  IF pl.row = -1
        THEN [board |-> pl.board, current |-> cur, game_over |-> FALSE, said |-> "full"]
        ELSE IF check_winner(pl.board, pl.row, col - 1)
        THEN [board |-> pl.board, current |-> cur, game_over |-> TRUE, said |-> "win"]
        ELSE IF board_full(pl.board)
        THEN [board |-> pl.board, current |-> cur, game_over |-> TRUE, said |-> "draw"]
        ELSE [board |-> pl.board, current |-> 1 - cur, game_over |-> FALSE, said |-> ""]

gamerest == <<bbvars, posvars, searchvars, hardvars, rulevars, loadvars, ttvars,
              agevars, cancelvars, partvars, parvars, threatvars, usevars, evalvars,
              ordervars, keyvars>>

\* main.c l.97-100, part_006 l.112-115: the first round.
InitGame ==
    /\ \E setup \in GameSetups :
          /\ gloop = setup[1].loop /\ gbot = setup[1].bot /\ gidx = setup[1].idx
          /\ gdiff = setup[1].diff /\ gver = setup[1].ver /\ gin = setup[2]
          /\ gcur = first_player(setup[1].loop, setup[1].bot, setup[1].idx)
    /\ gboard = EmptyBoard
    /\ gover = FALSE /\ gpc = "ask" /\ gcol = 0 /\ gfn = "" /\ gseen = <<>> /\ gres = ""
    /\ IdleBB /\ IdlePos /\ IdleSearch /\ IdleHard /\ IdleRules /\ IdleLoad /\ IdleTT
    /\ IdleAge /\ IdleCancel /\ IdlePart /\ IdlePar /\ IdleThreat /\ IdleUse /\ IdleEval
    /\ IdleOrder /\ IdleKey

\* A game that is neither scripted nor past its free stones goes on.
GameGoesOn == gin # <<>> \/ StoneCount(gboard) < MaxFreeStones

\* main.c l.110, part_006 l.127: col = getBotMoveEasy(board).
GameAskEasy ==
    /\ gpc = "ask" /\ GameGoesOn
    /\ gbot /\ gcur = bot_side /\ gdiff \notin {"medium", "hard"}
    /\ gcol' \in getBotMoveEasy(gboard)
    /\ gfn' = "easy" /\ gseen' = gboard /\ gpc' = "place"
    /\ UNCHANGED <<gloop, gbot, gidx, gdiff, gver, gboard, gcur, gover, gin, gres, gamerest>>

\* main.c l.108, part_006 l.125: col = getBotMoveMedium(board, players[bot],
\* players[other]); the array is the caller's.
GameAskMedium ==
    /\ gpc = "ask" /\ GameGoesOn
    /\ gbot /\ gcur = bot_side /\ gdiff = "medium"
    /\ \E call \in {medium_move(gver, gboard, GamePlayers[bot_side + 1],
                                GamePlayers[2 - bot_side])} :
          /\ gcol' \in call.rets
          /\ gboard' = call.board
    /\ gfn' = "medium" /\ gseen' = gboard /\ gpc' = "place"
    /\ UNCHANGED <<gloop, gbot, gidx, gdiff, gver, gcur, gover, gin, gres, gamerest>>

\* part_006 l.123: col = getBotMoveHard(board, ...).  The search is the
\* subject of the specifications above; the loop is checked against every
\* int it could be handed, outside 1..7 included.
GameAskHard ==
    /\ gpc = "ask" /\ GameGoesOn
    /\ gloop = "part6" /\ gbot /\ gcur = bot_side /\ gdiff = "hard"
    /\ gcol' \in 0..(COLS + 1)
    /\ gfn' = "hard" /\ gseen' = gboard /\ gpc' = "place"
    /\ UNCHANGED <<gloop, gbot, gidx, gdiff, gver, gboard, gcur, gover, gin, gres, gamerest>>

\* main.c l.114, part_006 l.131: col = getColumnIn(players[current]); the
\* person types the script, or any column when there is none.
GameAskPerson ==
    /\ gpc = "ask" /\ GameGoesOn
    /\ ~(gbot /\ gcur = bot_side)
    /\ \/ /\ gin = <<>>
          /\ gcol' \in 1..COLS
          /\ gin' = gin
       \/ /\ gin # <<>>
          /\ getColumnIn(gin).col # 0
          /\ gcol' = getColumnIn(gin).col
          /\ gin' = getColumnIn(gin).rest
    /\ gfn' = "person" /\ gseen' = gboard /\ gpc' = "place"
    /\ UNCHANGED <<gloop, gbot, gidx, gdiff, gver, gboard, gcur, gover, gres, gamerest>>

\* main.c l.117-136, part_006 l.134-153: the rest of the loop body.
GamePlace ==
    /\ gpc = "place"
    /\ \E turn \in {loop_turn(gboard, gcur, gcol)} :
          /\ gboard' = turn.board
          /\ gcur' = turn.current
          /\ gover' = turn.game_over
          /\ gres' = turn.said
          /\ gpc' = IF turn.game_over THEN "over" ELSE "ask"
    /\ UNCHANGED <<gloop, gbot, gidx, gdiff, gver, gcol, gfn, gseen, gin, gamerest>>

\* main.c l.139-149 and l.97-100, part_006 l.156-166 and l.112-115: 'y' is
\* answered to "Play again?".
GameAgain ==
    /\ gpc = "over"
    /\ gboard' = EmptyBoard
    /\ gover' = FALSE
    /\ gcur' = first_player(gloop, gbot, gidx)
    /\ gpc' = "ask" /\ gres' = ""
    /\ UNCHANGED <<gloop, gbot, gidx, gdiff, gver, gcol, gfn, gseen, gin, gamerest>>

NextGame ==
    \/ GameAskEasy
    \/ GameAskMedium
    \/ GameAskHard
    \/ GameAskPerson
    \/ GamePlace
    \/ GameAgain

SpecGame == InitGame /\ [][NextGame]_vars

\* who has four in a line somewhere on b.
FourOnBoard(b, who) == NaiveWin(StonesOf(b, who))

\* C37: whenever getBotMoveEasy, getBotMoveMedium or getBotMoveHard is
\* invoked, and whenever anyone is asked for a move, the board has a playable
\* column and neither player has four in a row.
C37_BotSeesOpenUndecidedBoard ==
    /\ (gpc = "place" /\ gfn \in {"easy", "medium", "hard"}) =>
           /\ Playable(gseen) # {}
           /\ ~FourOnBoard(gseen, "A") /\ ~FourOnBoard(gseen, "B")
    /\ gpc = "ask" =>
           /\ Playable(gboard) # {}
           /\ ~FourOnBoard(gboard, "A") /\ ~FourOnBoard(gboard, "B")

\* The medium bot has been called late in a scripted game.
C37_Witness ==
    /\ gpc = "place" /\ gfn = "medium"
    /\ StoneCount(gseen) >= 12

\* The loop body ran on col and left one more stone on the board.
StonePlaced == gpc = "place" /\ StoneCount(gboard') = StoneCount(gboard) + 1

\* C38: a move into a full or out-of-range column changes neither the board
\* nor the current player; the turn passes to the other player exactly when a
\* stone was placed that neither completes four in a row nor fills the board;
\* a stone that both fills the board and completes four is reported as a win.
C38_TurnPassesOnQuietStone ==
    [][gpc = "place" =>
        /\ (gcol \notin 1..COLS \/ (gcol - 1) \notin Playable(gboard)) =>
               (gboard' = gboard /\ gcur' = gcur)
        /\ (gcur' # gcur) <=>
               /\ StonePlaced
               /\ ~FourOnBoard(gboard', "A") /\ ~FourOnBoard(gboard', "B")
               /\ Playable(gboard') # {}
        /\ (/\ StonePlaced
            /\ Playable(gboard') = {}
            /\ FourOnBoard(gboard', GamePlayers[gcur + 1])) =>
               (gres' = "win" /\ gover')
    ]_vars

\* The 42nd stone of a game completed the only four on the board.
C38_Witness ==
    /\ gpc = "over" /\ gres = "win"
    /\ StoneCount(gboard) = ROWS * COLS
    /\ FourOnBoard(gboard, GamePlayers[gcur + 1])

(***************************************************************************)
(* getBotMoveMedium called on positions from the middle and the end of a   *)
(* game, for either side, each call followed by the returned stone and a   *)
(* typed reply of the other side.                                          *)
(***************************************************************************)

\* Replies typed after a call.
MaxMediumReplies == 1

MediumBoards ==
    CutBoardsOn({1, 3, 4, 7}) \cup {EmptyBoard, RaceBoard, ThreatBoard, LmpBoard, DeepBoard}

\* The marks on those boards; gidx selects the side the bot plays.
MediumMarks == <<"X", "O">>

InitMedium ==
    /\ gboard \in MediumBoards
    /\ gidx \in 0..1
    /\ gver \in 1..2
    /\ gin \in [1..MaxMediumReplies -> {1, 4, 7}]
    /\ gloop = "call" /\ gbot = TRUE /\ gdiff = "medium" /\ gcur = 0
    /\ gover = FALSE /\ gpc = "ask" /\ gcol = 0 /\ gfn = "" /\ gseen = <<>> /\ gres = ""
    /\ IdleBB /\ IdlePos /\ IdleSearch /\ IdleHard /\ IdleRules /\ IdleLoad /\ IdleTT
    /\ IdleAge /\ IdleCancel /\ IdlePart /\ IdlePar /\ IdleThreat /\ IdleUse /\ IdleEval
    /\ IdleOrder /\ IdleKey

\* col = getBotMoveMedium(board, bot, opponent); gres keeps the return
\* statement taken.
MediumCall ==
    /\ gpc = "ask"
    /\ \E call \in {medium_move(gver, gboard, MediumMarks[gidx + 1], MediumMarks[2 - gidx])} :
          /\ gcol' \in call.rets
          /\ gboard' = call.board
          /\ gres' = call.via
    /\ gfn' = "medium" /\ gseen' = gboard /\ gpc' = "place"
    /\ UNCHANGED <<gloop, gbot, gidx, gdiff, gver, gcur, gover, gin, gamerest>>

\* The returned stone is placed, the other side answers with the next typed
\* column, and the bot is called again.
MediumReply ==
    /\ gpc = "place" /\ gin # <<>>
    /\ gboard' = place_piece(place_piece(gboard, gcol, MediumMarks[gidx + 1]).board,
                             Head(gin), MediumMarks[2 - gidx]).board
    /\ gin' = Tail(gin)
    /\ gpc' = "ask"
    /\ UNCHANGED <<gloop, gbot, gidx, gdiff, gver, gcur, gover, gcol, gfn, gseen, gres, gamerest>>

NextMedium ==
    \/ MediumCall
    \/ MediumReply

SpecMedium == InitMedium /\ [][NextMedium]_vars

\* C39: getBotMoveMedium leaves the caller's board as it received it on
\* every return path, and when a playable column exists the column it
\* returns is playable.
C39_MediumRestoresBoard ==
    (gpc = "place" /\ gfn = "medium") =>
        /\ gboard = gseen
        /\ Playable(gseen) # {} => (gcol \in 1..COLS /\ (gcol - 1) \in Playable(gseen))

\* The first getBotMoveMedium returned from its strategic loop after it had
\* placed and removed stones of both sides; the board has playable columns.
C39_Witness ==
    /\ gpc = "place" /\ gfn = "medium" /\ gver = 1
    /\ gres = "best"
    /\ StoneCount(gseen) > 0 /\ Playable(gseen) # {}
    /\ gboard = gseen

====
